---- MODULE Spec2Model ----
(***************************************************************************)
(* spanish-reading-assistent: the storage service (vocabulary, books and   *)
(* pages on the local device store or the signed-in user's remote store),  *)
(* the reading walkthrough of AnalysisView and the training sessions of    *)
(* VocabTrainer.                                                           *)
(*                                                                         *)
(* A word is a sequence of one-character strings, so that trim() and       *)
(* toLowerCase() are computed and not assumed.                             *)
(***************************************************************************)
EXTENDS Integers, Sequences, FiniteSets, TLC

\* ------------------------------------------------------------------ bounds
\* Vocabulary gateway calls of one behaviour, and the values Date.now() takes.
MaxCalls == 2
\* Book and page gateway calls of one behaviour.
MaxBookCalls == 4
\* Candidates of one addVocabBatch call.
MaxBatch == 2
\* Sentences of one analysed page.
MaxSentences == 2
\* Pages one book may hold before the model stops appending.
MaxPages == 3
\* Pages loaded into the walkthrough, remote failures during it, and books created for it.
MaxOpens == 3
MaxFaults == 1
MaxBooks == 1
\* Candidates of the batch the trainer's vocabulary is collected from, and the
\* training sessions of one behaviour.
MaxCards == 3
MaxSessions == 1

\* ------------------------------------------------------------------ strings
Whitespace == {" "}

\* String.prototype.toLowerCase on one character.
LowerChar(c) == IF c = "A" THEN "a" ELSE IF c = "B" THEN "b" ELSE c

\* String.prototype.toLowerCase.
ToLowerCase(w) == [i \in 1..Len(w) |-> LowerChar(w[i])]

RECURSIVE TrimStart(_)
TrimStart(w) ==
    IF w = <<>> THEN <<>>
    ELSE IF Head(w) \in Whitespace THEN TrimStart(Tail(w))
    ELSE w

RECURSIVE TrimEnd(_)
TrimEnd(w) ==
    IF w = <<>> THEN <<>>
    ELSE IF w[Len(w)] \in Whitespace THEN TrimEnd(SubSeq(w, 1, Len(w) - 1))
    ELSE w

\* String.prototype.trim.
Trim(w) == TrimEnd(TrimStart(w))

\* word.trim().toLowerCase(): the form two words are compared by.
NormalizedWord(w) == ToLowerCase(Trim(w))

\* The surface forms the calls are given: upper and lower case, leading and
\* trailing blanks, and a word that is blank only.
WordPool == { <<"a">>, <<" ", "A">>, <<"b", " ">>, <<" ">> }

RECURSIVE SeqsUpTo(_, _)
SeqsUpTo(S, n) ==
    IF n = 0 THEN { <<>> }
    ELSE LET shorter == SeqsUpTo(S, n - 1)
         IN  shorter \cup { Append(s, x) : s \in { t \in shorter : Len(t) = n - 1 }, x \in S }

\* The batches a caller may pass: up to MaxBatch candidates, each {word}.
Batches == SeqsUpTo([word : WordPool], MaxBatch)

Range(s) == { s[i] : i \in 1..Len(s) }

\* ------------------------------------------------------------------ state
VARIABLES
    user,          \* currentUser: TRUE when a user is signed in
    now,           \* Date.now()
    nextId,        \* the next value crypto.randomUUID() / addDoc hands out
    localVocab,    \* localStorage[VOCAB_KEY]: the list, newest first
    remoteVocab,   \* users/{uid}/vocabulary: document id -> document
    call,          \* the gateway call a caller made directly last and what it returned
    ncalls,        \* gateway calls made directly by a caller, outside the walkthrough
    localBooks,    \* localStorage[BOOKS_KEY]: the list, newest first
    localPages,    \* localStorage[BOOKS_KEY_pages_{bookId}]: book id -> list of pages
    remoteBooks,   \* users/{uid}/books: document id -> document
    remotePages,   \* users/{uid}/books/{bookId}/pages: book id -> (document id -> document)
    lastAnalysis,  \* localStorage[ANALYSIS_KEY]: <<>> or <<entry>>
    history,       \* localStorage[HISTORY_KEY]: the entries, newest first
    mounted,       \* App shows AnalysisView
    initialData,   \* prop: <<>> or <<the stored page being read>>
    targetBookId,  \* prop (App's activeBookId): <<>> or <<book id>>
    result,        \* <<>> or <<the page analysis>>
    image,         \* an image is held (its bytes are read by nothing modelled)
    currentSentenceIndex,
    phase,
    currentWordIndex,
    finished,
    newlySavedCount,
    savedWords,
    savedToBook,
    faults,        \* remote operations that have failed so far
    opens,         \* pages loaded into AnalysisView so far
    advances,      \* advance actions since the page was analysed (counted by SpecTraversal)
    leftAt,        \* <<>> or <<page id, index>>: the stored page read last and the
                   \* sentence index its reader navigated to last
    vocabList,     \* VocabTrainer: the vocabulary its last loadVocab read
    loading,       \* the first loadVocab has not returned yet
    mode,          \* "list", "setup" or "train"
    selectedCategories,
    selectedStatus,
    verbsOnlyBase,
    sessionQueue,
    currentCardIndex,
    showAnswer,
    alerted,       \* the text of the last window.alert, "" before the first
    ratings,       \* ratings given since the session was started
    sessions,      \* sessions started so far
    inflight,      \* the calls suspended at an await, each with the locals it holds
    done           \* the calls that were suspended and have returned, in that order

vocabVars == <<localVocab, remoteVocab>>
bookVars == <<localBooks, localPages, remoteBooks, remotePages>>
cacheVars == <<lastAnalysis, history>>
propVars == <<mounted, initialData, targetBookId>>
flowVars == <<currentSentenceIndex, phase, currentWordIndex, finished>>
viewVars == <<propVars, result, image, flowVars, newlySavedCount, savedWords, savedToBook,
              faults, opens, advances, leftAt>>
setupVars == <<selectedCategories, selectedStatus, verbsOnlyBase>>
sessionVars == <<sessionQueue, currentCardIndex, showAnswer>>
trainerVars == <<vocabList, loading, mode, setupVars, sessionVars, alerted, ratings, sessions>>
asyncVars == <<inflight, done>>
vars == <<user, now, nextId, vocabVars, call, ncalls, bookVars, cacheVars, viewVars,
          trainerVars, asyncVars>>

NoCall == [op |-> "none"]

Init ==
    /\ user \in BOOLEAN
    /\ now = 1
    /\ nextId = 1
    /\ localVocab = <<>>
    /\ remoteVocab = <<>>
    /\ call = NoCall
    /\ ncalls = 0
    /\ localBooks = <<>>
    /\ localPages = <<>>
    /\ remoteBooks = <<>>
    /\ remotePages = <<>>
    /\ lastAnalysis = <<>>
    /\ history = <<>>
    /\ mounted = FALSE
    /\ initialData = <<>>
    /\ targetBookId = <<>>
    /\ result = <<>>
    /\ image = FALSE
    /\ currentSentenceIndex = 0
    /\ phase = "sentence"
    /\ currentWordIndex = 0
    /\ finished = FALSE
    /\ newlySavedCount = 0
    /\ savedWords = {}
    /\ savedToBook = FALSE
    /\ faults = 0
    /\ opens = 0
    /\ advances = 0
    /\ leftAt = <<>>
    /\ vocabList = <<>>
    /\ loading = TRUE
    /\ mode = "list"
    /\ selectedCategories = {"noun", "verb", "adjective"}
    /\ selectedStatus = {"new", "again", "medium"}
    /\ verbsOnlyBase = FALSE
    /\ sessionQueue = <<>>
    /\ currentCardIndex = 0
    /\ showAnswer = FALSE
    /\ alerted = ""
    /\ ratings = 0
    /\ sessions = 0
    /\ inflight = <<>>
    /\ done = <<>>

\* ------------------------------------------------------------------ vocabulary
\* query(colRef, orderBy('addedAt', 'desc')): the documents by addedAt descending;
\* equal addedAt values come in document-id order, descending like the query.
Later(d, e) == d.addedAt > e.addedAt \/ (d.addedAt = e.addedAt /\ d.id > e.id)

RECURSIVE OrderByAddedAtDesc(_)
OrderByAddedAtDesc(docs) ==
    IF docs = {} THEN <<>>
    ELSE LET first == CHOOSE d \in docs : \A e \in docs \ {d} : Later(d, e)
         IN  <<first>> \o OrderByAddedAtDesc(docs \ {first})

RemoteDocs(col) == { col[k] : k \in DOMAIN col }

\* getVocab. Signed in: the remote documents, or [] when getDocs rejects
\* (readOk = FALSE). Otherwise the stored local list.
GetVocab(u, readOk) ==
    IF u THEN (IF readOk THEN OrderByAddedAtDesc(RemoteDocs(remoteVocab)) ELSE <<>>)
    ELSE localVocab

\* new Set(current.map(v => v.word.trim().toLowerCase()))
ExistingWords(current) == { NormalizedWord(current[i].word) : i \in 1..Len(current) }

\* { ...item, word: item.word.trim(), id, addedAt, mastered: false }
NewItem(item, id, addedAt) ==
    [k \in DOMAIN item \cup {"word", "id", "addedAt", "mastered"} |->
        CASE k = "word" -> Trim(item.word)
          [] k = "id" -> id
          [] k = "addedAt" -> addedAt
          [] k = "mastered" -> FALSE
          [] OTHER -> item[k]]

\* The items one addVocabBatch loop creates, in loop order: a candidate is taken
\* when its normalized word is not in existingWords and is not empty, and its
\* normalized word joins existingWords.
RECURSIVE NewItems(_, _, _, _)
NewItems(items, existingWords, id, addedAt) ==
    IF items = <<>> THEN <<>>
    ELSE LET item == Head(items)
             normalizedWord == NormalizedWord(item.word)
         IN  IF normalizedWord \notin existingWords /\ Len(normalizedWord) > 0
             THEN <<NewItem(item, id, addedAt)>>
                  \o NewItems(Tail(items), existingWords \cup {normalizedWord}, id + 1, addedAt)
             ELSE NewItems(Tail(items), existingWords, id, addedAt)

\* updated.unshift(item) for each created item in turn: the last created is first.
RECURSIVE Unshifted(_, _)
Unshifted(list, created) ==
    IF created = <<>> THEN list
    ELSE Unshifted(<<Head(created)>> \o list, Tail(created))

\* batch.set(doc(colRef, id), item) for each created item, then batch.commit().
BatchSet(col, created) ==
    [k \in DOMAIN col \cup { created[i].id : i \in 1..Len(created) } |->
        IF \E i \in 1..Len(created) : created[i].id = k
        THEN (CHOOSE d \in Range(created) : d.id = k)
        ELSE col[k]]

\* addVocabBatch as it would be if it returned items.length.
AddVocabBatchReturningLength(items, readOk, writeOk) ==
    LET current == GetVocab(user, readOk)
        created == NewItems(items, ExistingWords(current), nextId, now)
        addedCount == Len(created)
        committed == addedCount = 0 \/ writeOk
    IN  [localVocab  |-> IF ~user /\ addedCount > 0 THEN Unshifted(current, created)
                         ELSE localVocab,
         remoteVocab |-> IF user /\ committed THEN BatchSet(remoteVocab, created)
                         ELSE remoteVocab,
         nextId      |-> nextId + addedCount,
         ret         |-> Len(items)]

\* addVocabBatch(items): the stores it leaves and the count it returns. readOk: the
\* getDocs of its getVocab resolves; writeOk: batch.commit() resolves (both matter
\* only when signed in; a rejected commit is caught and 0 returned).
AddVocabBatchOn(u, items, readOk, writeOk) ==
    LET addedAt == now
        current == GetVocab(u, readOk)
        created == NewItems(items, ExistingWords(current), nextId, addedAt)
        addedCount == Len(created)
        committed == addedCount = 0 \/ writeOk
    IN  [localVocab  |-> IF ~u /\ addedCount > 0 THEN Unshifted(current, created)
                         ELSE localVocab,
         remoteVocab |-> IF u /\ committed THEN BatchSet(remoteVocab, created)
                         ELSE remoteVocab,
         nextId      |-> nextId + addedCount,
         ret         |-> IF u /\ ~committed THEN 0 ELSE addedCount]

\* addVocabBatch(items) for the current identity: const user = currentUser.
AddVocabBatchResult(items, readOk, writeOk) ==
    AddVocabBatchOn(user, items, readOk, writeOk)

\* A caller awaits addVocabBatch(items).
AddVocabBatch(items, readOk, writeOk) ==
    LET r == AddVocabBatchResult(items, readOk, writeOk)
    IN  /\ ncalls < MaxCalls
        /\ localVocab' = r.localVocab
        /\ remoteVocab' = r.remoteVocab
        /\ nextId' = r.nextId
        /\ call' = [op |-> "addVocabBatch", threw |-> FALSE, ret |-> r.ret]
        /\ ncalls' = ncalls + 1
        /\ UNCHANGED <<asyncVars, trainerVars, user, now, bookVars, cacheVars, viewVars>>

\* Date.now() moves on between two calls.
Tick ==
    /\ now < MaxCalls
    /\ now' = now + 1
    /\ UNCHANGED <<asyncVars, trainerVars, user, nextId, vocabVars, bookVars, call, ncalls,
                   cacheVars, viewVars>>

\* onAuthStateChanged(auth, user => { currentUser = user }).
AuthStateChanged ==
    /\ user' = ~user
    /\ UNCHANGED <<asyncVars, trainerVars, now, nextId, vocabVars, bookVars, call, ncalls,
                   cacheVars, viewVars>>

NextVocab ==
    \/ \E items \in Batches, readOk, writeOk \in BOOLEAN :
          /\ (~user => readOk /\ writeOk)
          /\ AddVocabBatch(items, readOk, writeOk)
    \/ Tick
    \/ AuthStateChanged

\* The vocabulary gateway alone, on both backends, with a remote store that may fail.
SpecVocab == Init /\ [][NextVocab]_vars

\* ------------------------------------------------------------------ books and pages
\* The analysis a page is stored with in the book specification, one without
\* sentences (the walkthrough specification stores the analysed page itself).
NoAnalysis == [sentences |-> <<>>]

\* The documents of a collection (document id -> document) and of the pages
\* collection of one book, which exists only once a page was added to it.
PagesOf(pages, bookId) == IF bookId \in DOMAIN pages THEN pages[bookId] ELSE <<>>

\* query(colRef, orderBy('pageNumber', 'asc')); equal numbers in document-id order.
Earlier(p, q) == p.pageNumber < q.pageNumber \/ (p.pageNumber = q.pageNumber /\ p.id < q.id)

RECURSIVE OrderByPageNumberAsc(_)
OrderByPageNumberAsc(docs) ==
    IF docs = {} THEN <<>>
    ELSE LET first == CHOOSE d \in docs : \A e \in docs \ {d} : Earlier(d, e)
         IN  <<first>> \o OrderByPageNumberAsc(docs \ {first})

\* getBookPages(bookId). Signed in: the page documents of the book, or [] when
\* getDocs rejects. Otherwise the list stored under the book's pages key, or [].
GetBookPages(bookId, readOk) ==
    IF user
    THEN (IF readOk THEN OrderByPageNumberAsc(RemoteDocs(PagesOf(remotePages, bookId)))
          ELSE <<>>)
    ELSE PagesOf(localPages, bookId)

\* f with key k set to v.
Put(f, k, v) == [x \in DOMAIN f \cup {k} |-> IF x = k THEN v ELSE f[x]]

\* createBook(title, author): the stores it leaves and the id it returns, or that
\* it re-threw. The book starts with pageCount 0; title, author and the random coverStyle
\* are carried along and read by nothing modelled here. addOk: addDoc resolves.
CreateBookResult(addOk) ==
    LET newBook == [id |-> nextId, createdAt |-> now, pageCount |-> 0]
    IN  IF user
        THEN [localBooks  |-> localBooks,
              remoteBooks |-> IF addOk THEN Put(remoteBooks, nextId, newBook) ELSE remoteBooks,
              nextId      |-> IF addOk THEN nextId + 1 ELSE nextId,
              threw       |-> ~addOk,
              ret         |-> nextId]
        ELSE [localBooks  |-> <<newBook>> \o localBooks,
              remoteBooks |-> remoteBooks,
              nextId      |-> nextId + 1,
              threw       |-> FALSE,
              ret         |-> nextId]

\* books[bookIndex].pageCount = (books[bookIndex].pageCount || 0) + 1 for the
\* first book of the list with this id, if there is one.
IncrementLocalPageCount(books, bookId) ==
    IF \E i \in 1..Len(books) : books[i].id = bookId
    THEN LET bookIndex == CHOOSE i \in 1..Len(books) :
                              /\ books[i].id = bookId
                              /\ \A j \in 1..(i - 1) : books[j].id # bookId
         IN  [books EXCEPT ![bookIndex].pageCount = @ + 1]
    ELSE books

\* addPageToBook(bookId, image, analysis): the stores it leaves and the id it
\* returns, or that it re-threw. id: the identifier crypto.randomUUID() or addDoc
\* hands out. readOk: the getDocs of its getBookPages resolves; addOk: addDoc
\* resolves; updOk: updateDoc resolves (all three matter only when signed in).
AddPageToBookResult(bookId, analysis, id, readOk, addOk, updOk) ==
    LET currentPages == GetBookPages(bookId, readOk)
        pageNumber == Len(currentPages) + 1
        newPage == [id |-> id, bookId |-> bookId, pageNumber |-> pageNumber,
                    analysis |-> analysis, createdAt |-> now, lastSentenceIndex |-> 0]
        bookFound == bookId \in DOMAIN remoteBooks
    IN  IF user
        THEN \* addDoc(pagesColRef, newPage), then updateDoc(bookRef, increment(1)),
             \* which rejects for a book document that does not exist
             [localPages  |-> localPages,
              localBooks  |-> localBooks,
              remotePages |-> IF addOk
                              THEN Put(remotePages, bookId,
                                       Put(PagesOf(remotePages, bookId), id, newPage))
                              ELSE remotePages,
              remoteBooks |-> IF addOk /\ updOk /\ bookFound
                              THEN [remoteBooks EXCEPT ![bookId].pageCount = @ + 1]
                              ELSE remoteBooks,
              nextId      |-> IF addOk THEN id + 1 ELSE id,
              threw       |-> ~(addOk /\ updOk /\ bookFound),
              ret         |-> id]
        ELSE [localPages  |-> Put(localPages, bookId,
                                  Append(GetBookPages(bookId, TRUE), newPage)),
              localBooks  |-> IncrementLocalPageCount(localBooks, bookId),
              remotePages |-> remotePages,
              remoteBooks |-> remoteBooks,
              nextId      |-> id + 1,
              threw       |-> FALSE,
              ret         |-> id]

\* A caller awaits createBook(title, author).
CreateBook(addOk) ==
    LET r == CreateBookResult(addOk)
    IN  /\ ncalls < MaxBookCalls
        /\ localBooks' = r.localBooks
        /\ remoteBooks' = r.remoteBooks
        /\ nextId' = r.nextId
        /\ call' = IF r.threw THEN [op |-> "createBook", threw |-> TRUE]
                  ELSE [op |-> "createBook", threw |-> FALSE, ret |-> r.ret]
        /\ ncalls' = ncalls + 1
        /\ UNCHANGED <<asyncVars, trainerVars, user, now, vocabVars, localPages, remotePages,
                       cacheVars, viewVars>>

\* A caller awaits addPageToBook(bookId, image, analysis).
AddPageToBook(bookId, analysis, readOk, addOk, updOk) ==
    LET r == AddPageToBookResult(bookId, analysis, nextId, readOk, addOk, updOk)
    IN  /\ ncalls < MaxBookCalls
        /\ Len(GetBookPages(bookId, TRUE)) < MaxPages
        /\ localPages' = r.localPages
        /\ localBooks' = r.localBooks
        /\ remotePages' = r.remotePages
        /\ remoteBooks' = r.remoteBooks
        /\ nextId' = r.nextId
        /\ call' = IF r.threw THEN [op |-> "addPageToBook", threw |-> TRUE]
                  ELSE [op |-> "addPageToBook", threw |-> FALSE, ret |-> r.ret]
        /\ ncalls' = ncalls + 1
        /\ UNCHANGED <<asyncVars, trainerVars, user, now, vocabVars, cacheVars, viewVars>>

\* The ids of the books either backend lists: what a caller can hold as a book id,
\* also after the identity changed.
KnownBookIds == { localBooks[i].id : i \in 1..Len(localBooks) } \cup DOMAIN remoteBooks

NextBooks ==
    \/ \E addOk \in BOOLEAN :
          /\ (~user => addOk)
          /\ CreateBook(addOk)
    \/ \E bookId \in KnownBookIds, readOk, addOk, updOk \in BOOLEAN :
          /\ (~user => readOk /\ addOk /\ updOk)
          /\ AddPageToBook(bookId, NoAnalysis, readOk, addOk, updOk)
    \/ Tick
    \/ AuthStateChanged

\* The book and page gateway alone, on both backends, with a remote store that may fail.
SpecBooks == Init /\ [][NextBooks]_vars

\* ------------------------------------------------------------------ vocabulary edits
\* f without key k.
Without(f, k) == [x \in DOMAIN f \ {k} |-> f[x]]

\* removeVocab(id): the stores it leaves. Signed in, deleteDoc removes the document
\* and the call returns; when deleteDoc rejects (deleteOk = FALSE) the catch block
\* logs and control runs on into the local branch, which writes the list getVocab
\* returns (the remote list, or [] when its getDocs rejects), filtered, under VOCAB_KEY.
RemoveVocabOn(u, id, deleteOk, readOk) ==
    LET current == GetVocab(u, readOk)
        updated == SelectSeq(current, LAMBDA item : item.id # id)
    IN  IF u /\ deleteOk
        THEN [localVocab |-> localVocab, remoteVocab |-> Without(remoteVocab, id)]
        ELSE [localVocab |-> updated, remoteVocab |-> remoteVocab]

\* removeVocab(id) for the current identity: const user = currentUser.
RemoveVocabResult(id, deleteOk, readOk) ==
    RemoveVocabOn(user, id, deleteOk, readOk)

\* { ...item, mastered: !item.mastered }
ToggledItem(item) == [item EXCEPT !.mastered = ~item.mastered]

\* toggleMastered(id): the stores it leaves. The item is looked up in the list
\* getVocab returns; signed in, setDoc(docRef, updatedItem, {merge: true}) writes it
\* and the call returns; when setDoc rejects (writeOk = FALSE) control runs on into
\* the local branch, which writes the list that was read, mapped, under VOCAB_KEY.
ToggleMasteredResult(id, readOk, writeOk) ==
    LET current == GetVocab(user, readOk)
        found == \E i \in 1..Len(current) : current[i].id = id
        item == current[CHOOSE i \in 1..Len(current) :
                            current[i].id = id /\ \A j \in 1..(i - 1) : current[j].id # id]
        updatedList == [i \in 1..Len(current) |->
                            IF current[i].id = id THEN ToggledItem(item) ELSE current[i]]
    IN  IF ~found THEN [localVocab |-> localVocab, remoteVocab |-> remoteVocab]
        ELSE IF user /\ writeOk
        THEN [localVocab |-> localVocab, remoteVocab |-> Put(remoteVocab, id, ToggledItem(item))]
        ELSE [localVocab |-> updatedList, remoteVocab |-> remoteVocab]

\* A caller awaits removeVocab(id).
RemoveVocab(id, deleteOk, readOk) ==
    LET r == RemoveVocabResult(id, deleteOk, readOk)
    IN  /\ ncalls < MaxBookCalls
        /\ localVocab' = r.localVocab
        /\ remoteVocab' = r.remoteVocab
        /\ call' = [op |-> "removeVocab", threw |-> FALSE]
        /\ ncalls' = ncalls + 1
        /\ UNCHANGED <<asyncVars, trainerVars, user, now, nextId, bookVars, cacheVars, viewVars>>

\* A caller awaits toggleMastered(id).
ToggleMastered(id, readOk, writeOk) ==
    LET r == ToggleMasteredResult(id, readOk, writeOk)
    IN  /\ ncalls < MaxBookCalls
        /\ localVocab' = r.localVocab
        /\ remoteVocab' = r.remoteVocab
        /\ call' = [op |-> "toggleMastered", threw |-> FALSE]
        /\ ncalls' = ncalls + 1
        /\ UNCHANGED <<asyncVars, trainerVars, user, now, nextId, bookVars, cacheVars, viewVars>>

\* ------------------------------------------------------------------ vocabulary import
\* VocabItems of an exported file: one that carries an identifier of another
\* store, one without identifier, one whose word is blank.
ImportPool ==
    { [word |-> <<"a">>, id |-> 0, addedAt |-> 1, mastered |-> TRUE],
      [word |-> <<"b", " ">>, addedAt |-> 1, mastered |-> FALSE],
      [word |-> <<" ">>, addedAt |-> 1, mastered |-> FALSE] }

ImportBatches == SeqsUpTo(ImportPool, MaxBatch)

\* { ...item, id }
WithId(item, id) == [k \in DOMAIN item \cup {"id"} |-> IF k = "id" THEN id ELSE item[k]]

\* The items one importVocabFromJson loop takes, in loop order: an item is taken
\* when its normalized word is not in existingWords; it keeps item.id, or gets the
\* next crypto.randomUUID() when it has none.
RECURSIVE ImportedItems(_, _, _)
ImportedItems(items, existingWords, id) ==
    IF items = <<>> THEN <<>>
    ELSE LET item == Head(items)
             normalizedWord == NormalizedWord(item.word)
             hasId == "id" \in DOMAIN item
         IN  IF normalizedWord \notin existingWords
             THEN <<WithId(item, IF hasId THEN item.id ELSE id)>>
                  \o ImportedItems(Tail(items), existingWords \cup {normalizedWord},
                                   IF hasId THEN id ELSE id + 1)
             ELSE ImportedItems(Tail(items), existingWords, id)

\* batch.set(doc(colRef, id), item) in turn: a later write to a document wins.
RECURSIVE SetAll(_, _)
SetAll(col, created) ==
    IF created = <<>> THEN col
    ELSE SetAll(Put(col, Head(created).id, Head(created)), Tail(created))

\* The fresh identifiers an import used.
FreshIds(items, created) ==
    Cardinality({ i \in 1..Len(created) :
                    \A j \in 1..Len(items) :
                        NormalizedWord(items[j].word) = NormalizedWord(created[i].word)
                            => "id" \notin DOMAIN items[j] })

\* importVocabFromJson as it would be if a rejected commit still returned the count.
ImportReportingCount(items, readOk, writeOk) ==
    LET current == GetVocab(user, readOk)
        created == ImportedItems(items, ExistingWords(current), nextId)
        importedCount == Len(created)
    IN  [localVocab  |-> IF ~user /\ importedCount > 0 THEN Unshifted(current, created)
                         ELSE localVocab,
         remoteVocab |-> IF user /\ writeOk THEN SetAll(remoteVocab, created)
                         ELSE remoteVocab,
         nextId      |-> nextId + FreshIds(items, created),
         ret         |-> importedCount]

\* importVocabFromJson(items): the stores it leaves and the count it returns.
\* Signed in, batch.commit() runs also for an empty batch, and a rejected commit
\* (writeOk = FALSE) is caught and 0 returned.
ImportVocabFromJsonOn(u, items, readOk, writeOk) ==
    LET current == GetVocab(u, readOk)
        created == ImportedItems(items, ExistingWords(current), nextId)
        importedCount == Len(created)
    IN  [localVocab  |-> IF ~u /\ importedCount > 0 THEN Unshifted(current, created)
                         ELSE localVocab,
         remoteVocab |-> IF u /\ writeOk THEN SetAll(remoteVocab, created)
                         ELSE remoteVocab,
         nextId      |-> nextId + FreshIds(items, created),
         ret         |-> IF u /\ ~writeOk THEN 0 ELSE importedCount]

\* importVocabFromJson(items) for the current identity: const user = currentUser.
ImportVocabFromJsonResult(items, readOk, writeOk) ==
    ImportVocabFromJsonOn(user, items, readOk, writeOk)

\* A caller awaits importVocabFromJson(items).
ImportVocabFromJson(items, readOk, writeOk) ==
    LET r == ImportVocabFromJsonResult(items, readOk, writeOk)
    IN  /\ ncalls < MaxCalls
        /\ localVocab' = r.localVocab
        /\ remoteVocab' = r.remoteVocab
        /\ nextId' = r.nextId
        /\ call' = [op |-> "importVocabFromJson", threw |-> FALSE, ret |-> r.ret]
        /\ ncalls' = ncalls + 1
        /\ UNCHANGED <<asyncVars, trainerVars, user, now, bookVars, cacheVars, viewVars>>

\* A caller awaits getVocab().
ReadVocab(readOk) ==
    /\ ncalls < MaxBookCalls
    /\ call' = [op |-> "getVocab", threw |-> FALSE, ret |-> GetVocab(user, readOk)]
    /\ ncalls' = ncalls + 1
    /\ UNCHANGED <<asyncVars, trainerVars, user, now, nextId, vocabVars, bookVars, cacheVars,
                   viewVars>>

\* ------------------------------------------------------------------ book edits
\* query(colRef, orderBy('createdAt', 'desc')); equal createdAt in document-id order.
Newer(b, c) == b.createdAt > c.createdAt \/ (b.createdAt = c.createdAt /\ b.id > c.id)

RECURSIVE OrderByCreatedAtDesc(_)
OrderByCreatedAtDesc(docs) ==
    IF docs = {} THEN <<>>
    ELSE LET first == CHOOSE d \in docs : \A e \in docs \ {d} : Newer(d, e)
         IN  <<first>> \o OrderByCreatedAtDesc(docs \ {first})

\* getBooks. Signed in: the book documents, or [] when getDocs rejects. Otherwise
\* the list stored under BOOKS_KEY, or [].
GetBooks(readOk) ==
    IF user THEN (IF readOk THEN OrderByCreatedAtDesc(RemoteDocs(remoteBooks)) ELSE <<>>)
    ELSE localBooks

\* deleteBook(bookId): the stores it leaves. Signed in, deleteDoc removes the book
\* document (its pages stay) and the call returns; when deleteDoc rejects control
\* runs on into the local branch, which writes the list getBooks returns, filtered,
\* under BOOKS_KEY and removes the book's local pages key.
DeleteBookResult(bookId, deleteOk, readOk) ==
    LET books == GetBooks(readOk)
        updated == SelectSeq(books, LAMBDA b : b.id # bookId)
    IN  IF user /\ deleteOk
        THEN [localBooks |-> localBooks, localPages |-> localPages,
              remoteBooks |-> Without(remoteBooks, bookId)]
        ELSE [localBooks |-> updated, localPages |-> Without(localPages, bookId),
              remoteBooks |-> remoteBooks]

\* A variant of updatePageProgress that sets lastSentenceIndex on every page of
\* the book.
UpdateEveryPage(bookId, pageId, sentenceIndex, updOk) ==
    LET docs == PagesOf(remotePages, bookId)
        pages == PagesOf(localPages, bookId)
    IN  IF user
        THEN [localPages  |-> localPages,
              remotePages |-> IF updOk /\ pageId \in DOMAIN docs
                              THEN Put(remotePages, bookId,
                                       [k \in DOMAIN docs |->
                                           [docs[k] EXCEPT !.lastSentenceIndex = sentenceIndex]])
                              ELSE remotePages]
        ELSE [localPages  |-> IF bookId \in DOMAIN localPages
                              THEN Put(localPages, bookId,
                                       [i \in 1..Len(pages) |->
                                           [pages[i] EXCEPT !.lastSentenceIndex = sentenceIndex]])
                              ELSE localPages,
              remotePages |-> remotePages]

\* updatePageProgress(bookId, pageId, sentenceIndex): the stores it leaves. Signed
\* in, updateDoc sets lastSentenceIndex of the page document; it rejects for a
\* document that does not exist or when updOk = FALSE, which is caught. Otherwise the
\* first page with this id in the book's stored list, if any, is updated.
UpdatePageProgressResult(bookId, pageId, sentenceIndex, updOk) ==
    LET docs == PagesOf(remotePages, bookId)
        pages == PagesOf(localPages, bookId)
        idx == CHOOSE i \in 1..Len(pages) :
                   pages[i].id = pageId /\ \A j \in 1..(i - 1) : pages[j].id # pageId
    IN  IF user
        THEN [localPages  |-> localPages,
              remotePages |-> IF updOk /\ pageId \in DOMAIN docs
                              THEN Put(remotePages, bookId,
                                       [docs EXCEPT ![pageId].lastSentenceIndex = sentenceIndex])
                              ELSE remotePages]
        ELSE [localPages  |-> IF bookId \in DOMAIN localPages
                                 /\ \E i \in 1..Len(pages) : pages[i].id = pageId
                              THEN Put(localPages, bookId,
                                       [pages EXCEPT ![idx].lastSentenceIndex = sentenceIndex])
                              ELSE localPages,
              remotePages |-> remotePages]

\* A caller awaits deleteBook(bookId).
DeleteBook(bookId, deleteOk, readOk) ==
    LET r == DeleteBookResult(bookId, deleteOk, readOk)
    IN  /\ ncalls < MaxBookCalls
        /\ localBooks' = r.localBooks
        /\ localPages' = r.localPages
        /\ remoteBooks' = r.remoteBooks
        /\ call' = [op |-> "deleteBook", threw |-> FALSE]
        /\ ncalls' = ncalls + 1
        /\ UNCHANGED <<asyncVars, trainerVars, user, now, nextId, vocabVars, remotePages,
                       cacheVars, viewVars>>

\* A caller awaits updatePageProgress(bookId, pageId, sentenceIndex).
UpdatePageProgress(bookId, pageId, sentenceIndex, updOk) ==
    LET r == UpdatePageProgressResult(bookId, pageId, sentenceIndex, updOk)
    IN  /\ ncalls < MaxBookCalls
        /\ localPages' = r.localPages
        /\ remotePages' = r.remotePages
        /\ call' = [op |-> "updatePageProgress", threw |-> FALSE]
        /\ ncalls' = ncalls + 1
        /\ UNCHANGED <<asyncVars, trainerVars, user, now, nextId, vocabVars, localBooks,
                       remoteBooks, cacheVars,
                       viewVars>>

\* A caller awaits getBooks().
ReadBooks(readOk) ==
    /\ ncalls < MaxBookCalls
    /\ call' = [op |-> "getBooks", threw |-> FALSE, ret |-> GetBooks(readOk)]
    /\ ncalls' = ncalls + 1
    /\ UNCHANGED <<asyncVars, trainerVars, user, now, nextId, vocabVars, bookVars, cacheVars,
                   viewVars>>

\* A caller awaits getBookPages(bookId).
ReadBookPages(bookId, readOk) ==
    /\ ncalls < MaxBookCalls
    /\ call' = [op |-> "getBookPages", threw |-> FALSE, ret |-> GetBookPages(bookId, readOk)]
    /\ ncalls' = ncalls + 1
    /\ UNCHANGED <<asyncVars, trainerVars, user, now, nextId, vocabVars, bookVars, cacheVars,
                   viewVars>>

\* ------------------------------------------------------------------ the gateway
\* The identifiers a caller can hold: those of the items and pages either backend stores.
KnownVocabIds == { localVocab[i].id : i \in 1..Len(localVocab) } \cup DOMAIN remoteVocab

KnownPages ==
    UNION { Range(localPages[b]) : b \in DOMAIN localPages }
        \cup UNION { RemoteDocs(remotePages[b]) : b \in DOMAIN remotePages }

NextGateway ==
    \/ \E items \in Batches, readOk, writeOk \in BOOLEAN :
          /\ (~user => readOk /\ writeOk)
          /\ AddVocabBatch(items, readOk, writeOk)
    \/ \E items \in ImportBatches, readOk, writeOk \in BOOLEAN :
          /\ (~user => readOk /\ writeOk)
          /\ ImportVocabFromJson(items, readOk, writeOk)
    \/ \E id \in KnownVocabIds, deleteOk, readOk \in BOOLEAN :
          /\ (~user => deleteOk /\ readOk)
          /\ (deleteOk => readOk)
          /\ RemoveVocab(id, deleteOk, readOk)
    \/ \E id \in KnownVocabIds, readOk, writeOk \in BOOLEAN :
          /\ (~user => readOk /\ writeOk)
          /\ ToggleMastered(id, readOk, writeOk)
    \/ \E readOk \in BOOLEAN : (~user => readOk) /\ ReadVocab(readOk)
    \/ \E addOk \in BOOLEAN : (~user => addOk) /\ CreateBook(addOk)
    \/ \E bookId \in KnownBookIds, readOk, addOk, updOk \in BOOLEAN :
          /\ (~user => readOk /\ addOk /\ updOk)
          /\ AddPageToBook(bookId, NoAnalysis, readOk, addOk, updOk)
    \/ \E bookId \in KnownBookIds, deleteOk, readOk \in BOOLEAN :
          /\ (~user => deleteOk /\ readOk)
          /\ (deleteOk => readOk)
          /\ DeleteBook(bookId, deleteOk, readOk)
    \/ \E page \in KnownPages, updOk \in BOOLEAN :
          /\ (~user => updOk)
          /\ UpdatePageProgress(page.bookId, page.id, 1, updOk)
    \/ \E readOk \in BOOLEAN : (~user => readOk) /\ ReadBooks(readOk)
    \/ \E bookId \in KnownBookIds, readOk \in BOOLEAN :
          /\ (~user => readOk)
          /\ ReadBookPages(bookId, readOk)
    \/ AuthStateChanged

\* Every operation of the gateway, on both backends, with a remote store that may
\* fail and an identity that may change between calls.
SpecGateway == Init /\ [][NextGateway]_vars

\* ------------------------------------------------------------------ page analyses
\* A WordAnalysis as the walkthrough reads it: the surface text and the type.
Token(word, type) == [word |-> word, type |-> type]

\* A SentenceAnalysis: its tokens (original and translation are shown, never read).
Sentence(words) == [words |-> words]

\* Sentences with no, one and three lexical words; the last repeats a word in
\* another case, so its vocabulary batch holds two candidates of one form.
SentencePool ==
    { Sentence(<<Token(<<"!">>, "punctuation")>>),
      Sentence(<<Token(<<"b">>, "word"), Token(<<"!">>, "punctuation")>>),
      Sentence(<<Token(<<"A">>, "word"), Token(<<",">>, "punctuation"),
                 Token(<<"b">>, "word"), Token(<<"a">>, "word")>>) }

\* The PageAnalysisResults analyzeImage may resolve with: one to MaxSentences sentences.
Analyses == { [sentences |-> ss] : ss \in SeqsUpTo(SentencePool, MaxSentences) \ { <<>> } }

\* ------------------------------------------------------------------ walkthrough
\* currentSentence?.words.filter(w => w.type === 'word') || []
LexicalWords(sentence) == SelectSeq(sentence.words, LAMBDA w : w.type = "word")

\* One member of wordsToSave: { word, translation: w.translation || '', explanation:
\* w.explanation || '', category, baseForm, contextSentence: currentSentence.original };
\* a property whose value is undefined is a field the record does not have.
Candidate(w, sentence) ==
    [k \in {"word", "translation", "explanation"}
            \cup ({"category", "baseForm"} \cap DOMAIN w)
            \cup (IF "original" \in DOMAIN sentence THEN {"contextSentence"} ELSE {}) |->
        CASE k = "translation" -> (IF "translation" \in DOMAIN w THEN w.translation ELSE "")
          [] k = "explanation" -> (IF "explanation" \in DOMAIN w THEN w.explanation ELSE "")
          [] k = "contextSentence" -> sentence.original
          [] OTHER -> w[k]]

\* lexicalWords.map(w => ({...})): the candidates handleNextPhase passes to addVocabBatch.
WordsToSave(sentence) ==
    LET lexicalWords == LexicalWords(sentence)
    IN  [i \in 1..Len(lexicalWords) |-> Candidate(lexicalWords[i], sentence)]

\* The reading position: the four state cells the handlers move.
FlowState ==
    [sentenceIndex |-> currentSentenceIndex, phase |-> phase,
     wordIndex |-> currentWordIndex, finished |-> finished]

StartState == [sentenceIndex |-> 0, phase |-> "sentence", wordIndex |-> 0, finished |-> FALSE]

\* result?.sentences[currentSentenceIndex] is defined.
HasSentence(analysis, st) ==
    st.sentenceIndex >= 0 /\ st.sentenceIndex < Len(analysis.sentences)

\* A words phase entered one past the last word.
PastLastWord(lexicalWords) == Len(lexicalWords)

\* lexicalWords.length - 1: the word handlePrevPhase enters the words phase at.
LastWord(lexicalWords) == Len(lexicalWords) - 1

\* An advance that enters the words phase of every sentence, also of one without
\* lexical words.
NextPhaseAlwaysWords(analysis, st) ==
    LET lexicalWords == LexicalWords(analysis.sentences[st.sentenceIndex + 1])
    IN  IF st.phase = "sentence"
        THEN [st EXCEPT !.phase = "words", !.wordIndex = 0]
        ELSE IF st.phase = "words"
        THEN (IF st.wordIndex < Len(lexicalWords) - 1
              THEN [st EXCEPT !.wordIndex = @ + 1]
              ELSE [st EXCEPT !.phase = "translation"])
        ELSE (IF st.sentenceIndex < Len(analysis.sentences) - 1
              THEN [st EXCEPT !.sentenceIndex = @ + 1, !.phase = "sentence", !.wordIndex = 0]
              ELSE [st EXCEPT !.finished = TRUE])

\* An advance that starts the page over after its last translation.
NextPhaseWrappingAround(analysis, st) ==
    LET lexicalWords == LexicalWords(analysis.sentences[st.sentenceIndex + 1])
    IN  IF st.phase = "sentence"
        THEN (IF Len(lexicalWords) > 0
              THEN [st EXCEPT !.phase = "words", !.wordIndex = 0]
              ELSE [st EXCEPT !.phase = "translation"])
        ELSE IF st.phase = "words"
        THEN (IF st.wordIndex < Len(lexicalWords) - 1
              THEN [st EXCEPT !.wordIndex = @ + 1]
              ELSE [st EXCEPT !.phase = "translation"])
        ELSE (IF st.sentenceIndex < Len(analysis.sentences) - 1
              THEN [st EXCEPT !.sentenceIndex = @ + 1, !.phase = "sentence", !.wordIndex = 0]
              ELSE [st EXCEPT !.sentenceIndex = 0, !.phase = "sentence", !.wordIndex = 0])

\* The position handleNextPhase leaves.
NextPhase(analysis, st) ==
    LET lexicalWords == LexicalWords(analysis.sentences[st.sentenceIndex + 1])
    IN  IF st.phase = "sentence"
        THEN (IF Len(lexicalWords) > 0
              THEN [st EXCEPT !.phase = "words", !.wordIndex = 0]
              ELSE [st EXCEPT !.phase = "translation"])
        ELSE IF st.phase = "words"
        THEN (IF st.wordIndex < Len(lexicalWords) - 1
              THEN [st EXCEPT !.wordIndex = @ + 1]
              ELSE [st EXCEPT !.phase = "translation"])
        ELSE (IF st.sentenceIndex < Len(analysis.sentences) - 1
              THEN [st EXCEPT !.sentenceIndex = @ + 1, !.phase = "sentence", !.wordIndex = 0]
              ELSE [st EXCEPT !.finished = TRUE])

\* A skip that only leaves out the words: it lands in the translation phase of
\* the sentence it was pressed in.
SkipToTranslation(analysis, st) == [st EXCEPT !.phase = "translation"]

\* The position handleSkipToNextSentence leaves.
SkipToNextSentence(analysis, st) ==
    IF st.sentenceIndex < Len(analysis.sentences) - 1
    THEN [st EXCEPT !.sentenceIndex = @ + 1, !.phase = "sentence", !.wordIndex = 0]
    ELSE [st EXCEPT !.finished = TRUE]

\* A back action that enters the words phase at its first word.
PrevPhaseToFirstWord(analysis, st) ==
    LET lexicalWords == IF st.sentenceIndex >= 0 /\ st.sentenceIndex < Len(analysis.sentences)
                        THEN LexicalWords(analysis.sentences[st.sentenceIndex + 1])
                        ELSE <<>>
    IN  IF st.phase = "translation"
        THEN (IF Len(lexicalWords) > 0
              THEN [st EXCEPT !.phase = "words", !.wordIndex = 0]
              ELSE [st EXCEPT !.phase = "sentence"])
        ELSE IF st.phase = "words"
        THEN (IF st.wordIndex > 0
              THEN [st EXCEPT !.wordIndex = @ - 1]
              ELSE [st EXCEPT !.phase = "sentence"])
        ELSE (IF st.sentenceIndex > 0
              THEN [st EXCEPT !.sentenceIndex = @ - 1, !.phase = "translation"]
              ELSE st)

\* The position handlePrevPhase leaves.
PrevPhase(analysis, st) ==
    LET lexicalWords == IF HasSentence(analysis, st)
                        THEN LexicalWords(analysis.sentences[st.sentenceIndex + 1])
                        ELSE <<>>
    IN  IF st.phase = "translation"
        THEN (IF Len(lexicalWords) > 0
              THEN [st EXCEPT !.phase = "words", !.wordIndex = LastWord(lexicalWords)]
              ELSE [st EXCEPT !.phase = "sentence"])
        ELSE IF st.phase = "words"
        THEN (IF st.wordIndex > 0
              THEN [st EXCEPT !.wordIndex = @ - 1]
              ELSE [st EXCEPT !.phase = "sentence"])
        ELSE (IF st.sentenceIndex > 0
              THEN [st EXCEPT !.sentenceIndex = @ - 1, !.phase = "translation"]
              ELSE st)

\* ------------------------------------------------------------------ AnalysisView
\* isVocabSaved(word) against the list getVocab returns.
IsVocabSaved(word, readOk) ==
    \E i \in 1..Len(GetVocab(user, readOk)) :
        NormalizedWord(GetVocab(user, readOk)[i].word) = NormalizedWord(word)

\* The lexical tokens of all sentences of a page.
PageWords(analysis) ==
    UNION { Range(LexicalWords(analysis.sentences[i])) : i \in 1..Len(analysis.sentences) }

\* syncSavedState with every read resolving: the lower-cased words of the page
\* that are stored.
SyncedWords(analysis) ==
    { ToLowerCase(w.word) : w \in { x \in PageWords(analysis) : IsVocabSaved(x.word, TRUE) } }

\* syncSavedState after result became res: each isVocabSaved reads the list on its
\* own, and a read that fails remotely answers false, so any part of the stored
\* words may be missing; synced is the set it leaves.
SyncSavedState(res, synced) ==
    IF res = <<>> THEN synced = savedWords
    ELSE /\ synced \subseteq SyncedWords(res[1])
         /\ (~user => synced = SyncedWords(res[1]))

SyncFaults(res, synced) == IF res # <<>> /\ synced # SyncedWords(res[1]) THEN 1 ELSE 0

\* The cells a freshly mounted AnalysisView holds before its effects run.
FreshView ==
    /\ currentSentenceIndex' = 0
    /\ phase' = "sentence"
    /\ currentWordIndex' = 0
    /\ finished' = FALSE
    /\ newlySavedCount' = 0
    /\ savedToBook' = FALSE

\* The books and pages BookLibrary shows: those of the backend in use.
ListedBookIds ==
    IF user THEN DOMAIN remoteBooks ELSE { localBooks[i].id : i \in 1..Len(localBooks) }

ListedPages ==
    IF user THEN UNION { RemoteDocs(remotePages[b]) : b \in DOMAIN remotePages \cap ListedBookIds }
    ELSE UNION { Range(localPages[b]) : b \in DOMAIN localPages \cap ListedBookIds }

\* App renders AnalysisView with props (page, bookId); its mount effect takes the
\* stored page, or else the cached last analysis when no book is targeted, and
\* syncSavedState follows the new result.
Mount(page, bookId, synced) ==
    LET res == IF page # <<>> THEN <<page[1].analysis>>
               ELSE IF lastAnalysis # <<>> /\ bookId = <<>> THEN <<lastAnalysis[1].data>>
               ELSE <<>>
        loaded == IF res # <<>> THEN 1 ELSE 0
    IN  /\ ~mounted
        /\ opens + loaded <= MaxOpens
        /\ faults + SyncFaults(res, synced) <= MaxFaults
        /\ SyncSavedState(res, synced)
        /\ mounted' = TRUE
        /\ initialData' = page
        /\ targetBookId' = bookId
        /\ result' = res
        /\ image' = (res # <<>>)
        /\ FreshView
        /\ savedWords' = IF res = <<>> THEN {} ELSE synced
        /\ opens' = opens + loaded
        /\ faults' = faults + SyncFaults(res, synced)
        /\ UNCHANGED <<asyncVars, trainerVars, user, now, nextId, vocabVars, call, ncalls,
                       bookVars, cacheVars,
                       advances, leftAt>>

\* App.handleOpenPage(page) from the library.
HandleOpenPage(page, synced) == Mount(<<page>>, <<page.bookId>>, synced)

\* App.handleAddPageToBook(bookId) from the library.
HandleAddPageToBook(bookId, synced) == Mount(<<>>, <<bookId>>, synced)

\* App.handleViewChange(AppView.ANALYZE): the book context is kept as it is.
HandleViewChangeAnalyze(synced) == Mount(<<>>, targetBookId, synced)

\* AnalysisView is unmounted and its state is gone; bookId is the activeBookId left.
Unmount(bookId) ==
    /\ mounted' = FALSE
    /\ initialData' = <<>>
    /\ targetBookId' = bookId
    /\ result' = <<>>
    /\ image' = FALSE
    /\ FreshView
    /\ savedWords' = {}
    /\ UNCHANGED <<asyncVars, trainerVars, user, now, nextId, vocabVars, call, ncalls,
                   bookVars, cacheVars,
                   faults, opens, advances, leftAt>>

\* App.handleViewChange(view) for a view other than ANALYZE: the menu, or the
\* buttons of the finished screen; it clears the book context.
HandleViewChange ==
    /\ mounted \/ targetBookId # <<>>
    /\ Unmount(<<>>)

\* onSaveComplete = App.handleAnalysisClose: the finished screen's button in a book
\* context, or handleReset in a book context.
HandleAnalysisClose ==
    /\ mounted
    /\ targetBookId # <<>> \/ initialData # <<>>
    /\ Unmount(targetBookId)

\* [entry, ...history].slice(0, 10)
HistoryLimit == 10

\* A variant of slice that cuts nothing off.
Untruncated(list, n) == list

Slice(list, n) == SubSeq(list, 1, IF Len(list) < n THEN Len(list) ELSE n)

\* The reading position st becomes the view's; when a stored page is being read,
\* a change of the sentence index is what its reader navigated to.
MoveTo(st) ==
    /\ currentSentenceIndex' = st.sentenceIndex
    /\ phase' = st.phase
    /\ currentWordIndex' = st.wordIndex
    /\ finished' = st.finished
    /\ leftAt' = IF initialData # <<>> /\ st.sentenceIndex # currentSentenceIndex
                 THEN <<initialData[1].id, st.sentenceIndex>>
                 ELSE leftAt

\* saveCurrentAnalysis(data, image): the entry replaces the last-analysis cache and
\* goes to the front of the history, which is cut to its first ten entries.
SaveCurrentAnalysisResult(data) ==
    LET entry == [data |-> data, timestamp |-> now]
        updatedHistory == Slice(<<entry>> \o history, HistoryLimit)
    IN  [lastAnalysis |-> <<entry>>, history |-> updatedHistory]

\* A variant of the try block of handleAnalyze that also stores an (empty)
\* analysis when analyzeImage rejects.
AnalysisStoredOnFailure(data) ==
    IF targetBookId = <<>>
    THEN SaveCurrentAnalysisResult(IF data = <<>> THEN [sentences |-> <<>>] ELSE data[1])
    ELSE [lastAnalysis |-> lastAnalysis, history |-> history]

\* The try block of handleAnalyze: saveCurrentAnalysis runs after analyzeImage
\* has resolved and only without a target book; a rejection skips it.
AnalysisStored(data) ==
    IF data # <<>> /\ targetBookId = <<>>
    THEN SaveCurrentAnalysisResult(data[1])
    ELSE [lastAnalysis |-> lastAnalysis, history |-> history]

\* handleFileChange and handleAnalyze(base64Data) on the upload screen. data is
\* <<>> when analyzeImage rejects, else <<the analysis>>; then syncSavedState.
\* (advances is written by the specification that counts them.)
HandleAnalyze(data, synced) ==
    LET saved == AnalysisStored(data)
    IN  /\ mounted
        /\ result = <<>> /\ ~image
        /\ opens < MaxOpens
        /\ faults + SyncFaults(data, synced) <= MaxFaults
        /\ SyncSavedState(data, synced)
        /\ result' = data
        /\ image' = (data # <<>>)
        /\ MoveTo(StartState)
        /\ newlySavedCount' = 0
        /\ savedWords' = synced
        /\ lastAnalysis' = saved.lastAnalysis
        /\ history' = saved.history
        /\ opens' = opens + 1
        /\ faults' = faults + SyncFaults(data, synced)
        /\ UNCHANGED <<asyncVars, trainerVars, user, now, nextId, vocabVars, call, ncalls,
                       bookVars, propVars,
                       savedToBook>>

\* What reaching the end of the page does after setFinished(true): clearLastAnalysis
\* without a target book, handleSaveToBook with one; ending = FALSE when the page
\* goes on. id is the next identifier to hand out; saved is the savedToBook the
\* handler holds.
FinishHolding(saved, ending, id, pageReadOk, addOk, updOk) ==
    LET toBook == ending /\ targetBookId # <<>> /\ ~saved /\ result # <<>> /\ image
        r == AddPageToBookResult(targetBookId[1], result[1], id, pageReadOk, addOk, updOk)
    IN  /\ (~(user /\ toBook) => pageReadOk /\ addOk /\ updOk)
        /\ lastAnalysis' = IF ending /\ targetBookId = <<>> THEN <<>> ELSE lastAnalysis
        /\ IF toBook
           THEN /\ localPages' = r.localPages
                /\ localBooks' = r.localBooks
                /\ remotePages' = r.remotePages
                /\ remoteBooks' = r.remoteBooks
                /\ nextId' = r.nextId
                /\ savedToBook' = ~r.threw
           ELSE /\ UNCHANGED <<bookVars, savedToBook>>
                /\ nextId' = id
        /\ UNCHANGED history

\* The same in a handler that runs without an await before it: it holds the
\* current savedToBook.
Finish(ending, id, pageReadOk, addOk, updOk) ==
    FinishHolding(savedToBook, ending, id, pageReadOk, addOk, updOk)

\* handleNextPhase, by the button or the space key while result && !finished.
\* readOk, writeOk: the reads and the commit of its addVocabBatch; pageReadOk,
\* addOk, updOk: the steps of the addPageToBook that handleSaveToBook awaits.
\* (advances is written by the specification that counts them.)
HandleNextPhase(readOk, writeOk, pageReadOk, addOk, updOk) ==
    /\ mounted
    /\ result # <<>> /\ ~finished
    /\ HasSentence(result[1], FlowState)
    /\ LET currentSentence == result[1].sentences[currentSentenceIndex + 1]
           lexicalWords == LexicalWords(currentSentence)
           saving == phase = "translation"
           wordsToSave == WordsToSave(currentSentence)
           v == AddVocabBatchResult(wordsToSave, readOk, writeOk)
           st == NextPhase(result[1], FlowState)
           failed == ~(readOk /\ writeOk /\ pageReadOk /\ addOk /\ updOk)
       IN  /\ (~(user /\ saving) => readOk /\ writeOk)
           /\ faults + (IF failed THEN 1 ELSE 0) <= MaxFaults
           /\ faults' = faults + (IF failed THEN 1 ELSE 0)
           /\ MoveTo(st)
           /\ IF saving
              THEN /\ localVocab' = v.localVocab
                   /\ remoteVocab' = v.remoteVocab
                   /\ newlySavedCount' = newlySavedCount + v.ret
                   /\ savedWords' = savedWords \cup
                          { ToLowerCase(wordsToSave[i].word) : i \in 1..Len(wordsToSave) }
                   /\ Finish(st.finished, v.nextId, pageReadOk, addOk, updOk)
              ELSE /\ UNCHANGED <<vocabVars, newlySavedCount, savedWords>>
                   /\ Finish(FALSE, nextId, pageReadOk, addOk, updOk)
    /\ UNCHANGED <<asyncVars, trainerVars, user, now, call, ncalls, propVars, result, image, opens>>

\* handleSkipToNextSentence, by the button the sentence phase shows.
HandleSkipToNextSentence(pageReadOk, addOk, updOk) ==
    /\ mounted
    /\ result # <<>> /\ ~finished
    /\ phase = "sentence"
    /\ HasSentence(result[1], FlowState)
    /\ LET st == SkipToNextSentence(result[1], FlowState)
           failed == ~(pageReadOk /\ addOk /\ updOk)
       IN  /\ faults + (IF failed THEN 1 ELSE 0) <= MaxFaults
           /\ faults' = faults + (IF failed THEN 1 ELSE 0)
           /\ MoveTo(st)
           /\ Finish(st.finished, nextId, pageReadOk, addOk, updOk)
    /\ UNCHANGED <<asyncVars, trainerVars, user, now, vocabVars, call, ncalls, propVars,
                   result, image,
                   newlySavedCount, savedWords, opens, advances>>

\* handlePrevPhase, by the back button of the reading screen.
HandlePrevPhase ==
    /\ mounted
    /\ result # <<>> /\ ~finished
    /\ MoveTo(PrevPhase(result[1], FlowState))
    /\ UNCHANGED <<asyncVars, trainerVars, user, now, nextId, vocabVars, call, ncalls,
                   bookVars, cacheVars, propVars,
                   result, image, newlySavedCount, savedWords, savedToBook, faults, opens,
                   advances>>

\* handleReset outside a book context: the close button of the reading screen or
\* the next-page button of the finished screen.
HandleReset ==
    /\ mounted
    /\ targetBookId = <<>> /\ initialData = <<>>
    /\ result # <<>> \/ image
    /\ image' = FALSE
    /\ result' = <<>>
    /\ finished' = FALSE
    /\ lastAnalysis' = <<>>
    /\ UNCHANGED <<asyncVars, trainerVars, user, now, nextId, vocabVars, call, ncalls,
                   bookVars, history, propVars,
                   currentSentenceIndex, phase, currentWordIndex, newlySavedCount,
                   savedWords, savedToBook, faults, opens, advances, leftAt>>

\* ------------------------------------------------------------------ specifications
\* The sets savedWords may be synced to.
WordSets == SUBSET { ToLowerCase(w.word) : w \in UNION { PageWords(a) : a \in Analyses } }

\* A book is created from the library while fewer than MaxBooks exist.
CreateBookInLibrary ==
    /\ ~mounted
    /\ Cardinality(KnownBookIds) < MaxBooks
    /\ CreateBook(TRUE)

\* A page is scanned and analysed; the count of advances starts over.
Scan(data, synced) == HandleAnalyze(data, synced) /\ advances' = 0

\* One advance action, counted.
Advance(readOk, writeOk, pageReadOk, addOk, updOk) ==
    /\ HandleNextPhase(readOk, writeOk, pageReadOk, addOk, updOk)
    /\ advances' = advances + 1

NextTraversal ==
    \/ CreateBookInLibrary
    \/ \E synced \in WordSets : HandleViewChangeAnalyze(synced)
    \/ \E bookId \in ListedBookIds, synced \in WordSets : HandleAddPageToBook(bookId, synced)
    \/ \E a \in Analyses, synced \in WordSets : Scan(<<a>>, synced)
    \/ \E readOk, writeOk, pageReadOk, addOk, updOk \in BOOLEAN :
          Advance(readOk, writeOk, pageReadOk, addOk, updOk)

\* A page is scanned, with or without a target book, and read by advance actions only.
SpecTraversal == Init /\ [][NextTraversal]_vars

\* The first page of a session is scanned without a target book (a scan that
\* fails may be repeated).
FirstScan(data, synced) ==
    /\ targetBookId = <<>>
    /\ history = <<>>
    /\ HandleAnalyze(data, synced)
    /\ UNCHANGED advances

\* The first page of a book is scanned into it (a scan that fails may be repeated).
ScanIntoBook(data, synced) ==
    /\ targetBookId # <<>>
    /\ ListedPages = {}
    /\ HandleAnalyze(data, synced)
    /\ UNCHANGED advances

\* handleNextPhase where advances are not counted.
Forward(readOk, writeOk, pageReadOk, addOk, updOk) ==
    /\ HandleNextPhase(readOk, writeOk, pageReadOk, addOk, updOk)
    /\ UNCHANGED advances

Scans == { <<>> } \cup { <<a>> : a \in Analyses }

NextFlow ==
    \/ \E synced \in WordSets : HandleViewChangeAnalyze(synced)
    \/ HandleViewChange
    \/ \E data \in Scans, synced \in WordSets : FirstScan(data, synced)
    \/ \E readOk, writeOk, pageReadOk, addOk, updOk \in BOOLEAN :
          Forward(readOk, writeOk, pageReadOk, addOk, updOk)
    \/ \E pageReadOk, addOk, updOk \in BOOLEAN :
          HandleSkipToNextSentence(pageReadOk, addOk, updOk)
    \/ HandlePrevPhase
    \/ HandleReset

\* A scanned page without a target book under every navigation button, left and
\* resumed from the cache, on both backends, with a remote store that may fail.
SpecFlow == Init /\ [][NextFlow]_vars

NextReading ==
    \/ CreateBookInLibrary
    \/ \E bookId \in ListedBookIds, synced \in WordSets : HandleAddPageToBook(bookId, synced)
    \/ \E page \in ListedPages, synced \in WordSets : HandleOpenPage(page, synced)
    \/ HandleViewChange
    \/ HandleAnalysisClose
    \/ \E data \in Scans, synced \in WordSets : ScanIntoBook(data, synced)
    \/ \E readOk, writeOk, pageReadOk, addOk, updOk \in BOOLEAN :
          Forward(readOk, writeOk, pageReadOk, addOk, updOk)
    \/ \E pageReadOk, addOk, updOk \in BOOLEAN :
          HandleSkipToNextSentence(pageReadOk, addOk, updOk)
    \/ HandlePrevPhase

\* A book of the library: a page is scanned into it, stored pages are opened, read
\* and left, on both backends, with a remote store that may fail.
SpecReading == Init /\ [][NextReading]_vars

\* ------------------------------------------------------------------ C1, C2
\* The items of the backend the current identity selects.
StoredItems == IF user THEN RemoteDocs(remoteVocab) ELSE Range(localVocab)
StoredCount == IF user THEN Cardinality(DOMAIN remoteVocab) ELSE Len(localVocab)

\* No two items of the list share a normalized word.
OnePerFormList(list) ==
    \A i, j \in 1..Len(list) :
        i # j => NormalizedWord(list[i].word) # NormalizedWord(list[j].word)

\* No two documents of the collection share a normalized word.
OnePerFormDocs(col) ==
    \A k, l \in DOMAIN col :
        k # l => NormalizedWord(col[k].word) # NormalizedWord(col[l].word)

\* C1: after any sequence of addVocabBatch calls from an empty collection, the
\* stored vocabulary (local list and remote collection) holds at most one item per
\* trimmed, lower-cased surface form.
C1_DedupInvariant == OnePerFormList(localVocab) /\ OnePerFormDocs(remoteVocab)

\* The normalized forms of a batch.
BatchForms(items) == { NormalizedWord(items[i].word) : i \in 1..Len(items) }

\* C2 as stated: addVocabBatch returns the growth of the stored collection, and
\* that is the number of distinct normalized candidate forms not already stored.
C2_ReturnsNewFormCount ==
    [][\A items \in Batches, readOk, writeOk \in BOOLEAN :
          AddVocabBatch(items, readOk, writeOk) =>
              /\ call'.ret = StoredCount' - StoredCount
              /\ call'.ret = Cardinality(BatchForms(items)
                                 \ { NormalizedWord(d.word) : d \in StoredItems })]_vars

\* C2 as amended: addVocabBatch returns exactly the growth of the stored collection
\* (the number of items it inserted): the number of distinct non-empty normalized
\* candidate forms that are not in the list its own getVocab read returned, and 0
\* when the remote commit fails.
C2_ReturnsInsertedCount ==
    [][\A items \in Batches, readOk, writeOk \in BOOLEAN :
          AddVocabBatch(items, readOk, writeOk) =>
              /\ call'.ret = StoredCount' - StoredCount
              /\ call'.ret =
                    IF user /\ ~writeOk THEN 0
                    ELSE Cardinality(BatchForms(items)
                             \ (ExistingWords(GetVocab(user, readOk)) \cup { <<>> }))]_vars

\* A second call has inserted one item into a collection that held one: its batch
\* overlapped what was stored or repeated a word.
C2_Witness ==
    /\ ncalls = 2
    /\ call.op = "addVocabBatch"
    /\ call.ret = 1
    /\ StoredCount = 2

\* ------------------------------------------------------------------ C3, C4, C5
\* The lexical queue lengths of a page, sentence by sentence.
QueueLengths(analysis) ==
    [i \in 1..Len(analysis.sentences) |-> Len(LexicalWords(analysis.sentences[i]))]

RECURSIVE RequiredAdvances(_)
RequiredAdvances(lengths) ==
    IF lengths = <<>> THEN 0 ELSE Head(lengths) + 2 + RequiredAdvances(Tail(lengths))

\* C3: on a scanned page with S >= 1 sentences whose lexical queues hold w_i words,
\* read from (0, sentence) by advance actions only, the walkthrough is finished
\* exactly when the sum over i of (w_i + 2) advances were made, and not before.
C3_TraversalLength ==
    result # <<>> =>
        /\ finished => advances = RequiredAdvances(QueueLengths(result[1]))
        /\ ~finished => advances < RequiredAdvances(QueueLengths(result[1]))

\* The page of the example (three lexical words, then none) is finished after
\* seven advances.
C3_Witness ==
    /\ result # <<>>
    /\ QueueLengths(result[1]) = <<3, 0>>
    /\ finished
    /\ advances = 7

\* C4: with a page of at least one sentence in the view, under any sequence of
\* advance, back and skip actions, 0 <= sentenceIndex < sentenceCount, and in the
\* words phase 0 <= wordIndex < length of the current sentence's lexical queue.
C4_FlowBounds ==
    (result # <<>> /\ Len(result[1].sentences) >= 1) =>
        /\ 0 <= currentSentenceIndex
        /\ currentSentenceIndex < Len(result[1].sentences)
        /\ phase = "words" =>
              /\ 0 <= currentWordIndex
              /\ currentWordIndex < QueueLengths(result[1])[currentSentenceIndex + 1]

\* The first sentence (three lexical words) was skipped, and a back action returned
\* from the second sentence to its translation: nothing was saved, and the word
\* index is the 0 the skip left, not the 2 an advance through the words leaves.
C4_Witness ==
    /\ result # <<>>
    /\ Len(result[1].sentences) = 2
    /\ QueueLengths(result[1])[1] = 3
    /\ ~finished
    /\ currentSentenceIndex = 0
    /\ phase = "translation"
    /\ currentWordIndex = 0
    /\ newlySavedCount = 0

\* Positions are compared by sentence index, phase and, in the words phase, word index.
SamePosition(p, q) ==
    /\ p.sentenceIndex = q.sentenceIndex
    /\ p.phase = q.phase
    /\ p.finished = q.finished
    /\ p.phase = "words" => p.wordIndex = q.wordIndex

AtStart(st) == st.sentenceIndex = 0 /\ st.phase = "sentence"

\* C5: for every non-finished reading state s the walkthrough reaches, back undoes
\* advance when advance does not finish, advance undoes back unless s is
\* (0, sentence), and back at (0, sentence) changes nothing.
C5_BackMirrorsForward ==
    (result # <<>> /\ ~finished /\ HasSentence(result[1], FlowState)) =>
        LET s == FlowState
            a == result[1]
        IN  /\ ~NextPhase(a, s).finished => SamePosition(PrevPhase(a, NextPhase(a, s)), s)
            /\ ~AtStart(s) => SamePosition(NextPhase(a, PrevPhase(a, s)), s)
            /\ AtStart(s) => PrevPhase(a, s) = s

\* The last word of the first sentence, re-entered by back actions after an advance
\* over its translation had saved its words.
C5_Witness ==
    /\ result # <<>>
    /\ QueueLengths(result[1]) = <<3, 0>>
    /\ ~finished
    /\ currentSentenceIndex = 0
    /\ phase = "words"
    /\ currentWordIndex = 2
    /\ newlySavedCount = 2

\* ------------------------------------------------------------------ C14, C15
\* C14: a skip action happens in the sentence phase only and moves from sentence i
\* straight to (i + 1, sentence, 0) when i is not the last sentence and to finished
\* when it is; the words and the translation of sentence i are not passed, so
\* nothing is inserted into the vocabulary.
C14_SkipTransition ==
    [][\A pageReadOk, addOk, updOk \in BOOLEAN :
          HandleSkipToNextSentence(pageReadOk, addOk, updOk) =>
              /\ phase = "sentence"
              /\ UNCHANGED <<vocabVars, newlySavedCount>>
              /\ IF currentSentenceIndex < Len(result[1].sentences) - 1
                 THEN /\ currentSentenceIndex' = currentSentenceIndex + 1
                      /\ phase' = "sentence"
                      /\ currentWordIndex' = 0
                      /\ ~finished'
                 ELSE finished']_vars

\* The second sentence is on display although the first, with three lexical words,
\* left nothing in the vocabulary: it was skipped.
C14_Witness ==
    /\ result # <<>>
    /\ QueueLengths(result[1]) = <<3, 1>>
    /\ ~finished
    /\ currentSentenceIndex = 1
    /\ phase = "sentence"
    /\ StoredCount = 0

\* The view shows the translation of the last sentence of its page.
AtLastTranslation ==
    /\ mounted /\ result # <<>> /\ ~finished
    /\ phase = "translation"
    /\ currentSentenceIndex = Len(result[1].sentences) - 1

\* C15: an advance from the translation of the last sentence marks the page
\* finished and clears the last-analysis cache; while the page stays finished no
\* action changes sentenceIndex, phase or wordIndex, and the cache stays cleared.
C15_FinishedIsTerminal ==
    [][/\ \A readOk, writeOk, pageReadOk, addOk, updOk \in BOOLEAN :
             (AtLastTranslation /\ Forward(readOk, writeOk, pageReadOk, addOk, updOk)) =>
                 finished' /\ lastAnalysis' = <<>>
       /\ (finished /\ finished') =>
             /\ UNCHANGED <<currentSentenceIndex, phase, currentWordIndex>>
             /\ lastAnalysis' = <<>>
       /\ \A readOk, writeOk, pageReadOk, addOk, updOk \in BOOLEAN :
             Forward(readOk, writeOk, pageReadOk, addOk, updOk) => ~finished]_vars

\* A page of two sentences is finished, all its words saved, and the cache is empty.
C15_Witness ==
    /\ result # <<>>
    /\ QueueLengths(result[1]) = <<1, 3>>
    /\ finished
    /\ currentSentenceIndex = 1
    /\ phase = "translation"
    /\ newlySavedCount = 2
    /\ lastAnalysis = <<>>

\* ------------------------------------------------------------------ C6, C7
\* C6: when a stored page is opened again after its reader navigated to sentence
\* index k, the walkthrough starts at sentence index k in the sentence phase, and
\* the page's stored lastSentenceIndex is k.
C6_ResumesWhereLeft ==
    [][\A page \in ListedPages, synced \in WordSets :
          (HandleOpenPage(page, synced) /\ leftAt # <<>> /\ leftAt[1] = page.id) =>
              /\ page.lastSentenceIndex = leftAt[2]
              /\ currentSentenceIndex' = leftAt[2]
              /\ phase' = "sentence"]_vars

\* A page is being scanned into a target book: no stored page is being read.
ScanningIntoBook == mounted /\ targetBookId # <<>> /\ initialData = <<>> /\ result # <<>>

\* C7: for a page scanned into a target book, words of the page are inserted into
\* the vocabulary only after addPageToBook has stored the page.
C7_PageBeforeVocabulary ==
    ScanningIntoBook =>
        ((\E w \in PageWords(result[1]) : IsVocabSaved(w.word, TRUE)) =>
            \E p \in ListedPages : p.bookId = targetBookId[1] /\ p.analysis = result[1])

\* ------------------------------------------------------------------ C11, C12, C13
\* C11: when the remote write of removeVocab, toggleMastered, deleteBook or
\* updatePageProgress fails for a signed-in user, the call returns normally and
\* the remote collections and the local device store are as before the call.
C11_SilentNoOp ==
    [][user =>
          /\ \A id \in KnownVocabIds, readOk \in BOOLEAN :
                RemoveVocab(id, FALSE, readOk) =>
                    ~call'.threw /\ UNCHANGED <<vocabVars, bookVars>>
          /\ \A id \in KnownVocabIds, readOk \in BOOLEAN :
                ToggleMastered(id, readOk, FALSE) =>
                    ~call'.threw /\ UNCHANGED <<vocabVars, bookVars>>
          /\ \A bookId \in KnownBookIds, readOk \in BOOLEAN :
                DeleteBook(bookId, FALSE, readOk) =>
                    ~call'.threw /\ UNCHANGED <<vocabVars, bookVars>>
          /\ \A page \in KnownPages :
                UpdatePageProgress(page.bookId, page.id, 1, FALSE) =>
                    ~call'.threw /\ UNCHANGED <<vocabVars, bookVars>>]_vars

\* C12: for a signed-in user whose remote operation fails, getVocab, getBooks and
\* getBookPages return an empty list, addVocabBatch and importVocabFromJson return 0
\* with nothing stored, and none of them raises; createBook and addPageToBook
\* raise, and no other gateway operation ever does.
C12_FailurePropagation ==
    [][/\ call'.op # "none" /\ call'.threw => call'.op \in {"createBook", "addPageToBook"}
       /\ user =>
          /\ ReadVocab(FALSE) => ~call'.threw /\ call'.ret = <<>>
          /\ ReadBooks(FALSE) => ~call'.threw /\ call'.ret = <<>>
          /\ \A bookId \in KnownBookIds :
                ReadBookPages(bookId, FALSE) => ~call'.threw /\ call'.ret = <<>>
          /\ \A items \in Batches, readOk \in BOOLEAN :
                AddVocabBatch(items, readOk, FALSE) =>
                    ~call'.threw /\ call'.ret = 0 /\ UNCHANGED <<vocabVars, bookVars>>
          /\ \A items \in ImportBatches, readOk \in BOOLEAN :
                ImportVocabFromJson(items, readOk, FALSE) =>
                    ~call'.threw /\ call'.ret = 0 /\ UNCHANGED <<vocabVars, bookVars>>
          /\ CreateBook(FALSE) => call'.threw
          /\ \A bookId \in KnownBookIds, readOk, addOk, updOk \in BOOLEAN :
                (AddPageToBook(bookId, NoAnalysis, readOk, addOk, updOk) /\ ~(addOk /\ updOk))
                    => call'.threw]_vars

\* addPageToBook has re-thrown to its caller after a page was stored: its addDoc
\* resolved and its updateDoc rejected.
C12_Witness ==
    /\ user
    /\ call.op = "addPageToBook"
    /\ call.threw
    /\ \E b \in DOMAIN remotePages : remotePages[b] # <<>>

\* The stores of the two backends.
localStores == <<localVocab, localBooks, localPages>>
remoteStores == <<remoteVocab, remoteBooks, remotePages>>

\* C13: every gateway call works on the backend of the identity that is current
\* when it starts: a call of a signed-in user leaves the local device store as it
\* is, a call of a guest leaves the remote collections as they are (nothing is
\* copied between the backends), and a read returns the selected backend's data.
C13_PerCallRouting ==
    [][ncalls' = ncalls + 1 =>
          /\ user => UNCHANGED localStores
          /\ ~user => UNCHANGED remoteStores
          /\ call'.op = "getVocab" /\ ~user => call'.ret = localVocab
          /\ call'.op = "getBooks" /\ ~user => call'.ret = localBooks
          /\ call'.op = "getVocab" /\ user =>
                call'.ret \in {<<>>, OrderByAddedAtDesc(RemoteDocs(remoteVocab))}
          /\ call'.op = "getBooks" /\ user =>
                call'.ret \in {<<>>, OrderByCreatedAtDesc(RemoteDocs(remoteBooks))}]_vars

\* ------------------------------------------------------------------ C8, C9, C10
\* The stored pages of a book on the backend the current identity selects, in the
\* order they were appended (identifiers are handed out in call order).
RECURSIVE OrderById(_)
OrderById(docs) ==
    IF docs = {} THEN <<>>
    ELSE LET first == CHOOSE d \in docs : \A e \in docs \ {d} : d.id < e.id
         IN  <<first>> \o OrderById(docs \ {first})

StoredPages(bookId) ==
    IF user THEN OrderById(RemoteDocs(PagesOf(remotePages, bookId)))
    ELSE PagesOf(localPages, bookId)

\* The book as the backend of the current identity lists it.
BookListed(bookId) ==
    IF user THEN bookId \in DOMAIN remoteBooks
    ELSE \E i \in 1..Len(localBooks) : localBooks[i].id = bookId

ListedPageCount(bookId) ==
    IF user THEN remoteBooks[bookId].pageCount
    ELSE (CHOOSE b \in Range(localBooks) : b.id = bookId).pageCount

\* The book's pages carry 1..N in append order and its pageCount is N.
NumberedInOrder(bookId) ==
    /\ BookListed(bookId)
    /\ \A i \in 1..Len(StoredPages(bookId)) : StoredPages(bookId)[i].pageNumber = i
    /\ ListedPageCount(bookId) = Len(StoredPages(bookId))

\* C8: sequential successful addPageToBook calls number the new pages 1..N in
\* append order and leave pageCount = N: a call that returns an id for a book whose
\* pages are 1..N with pageCount N leaves them 1..N+1 with pageCount N+1.
C8_AppendMonotonic ==
    [][\A bookId \in KnownBookIds, readOk, addOk, updOk \in BOOLEAN :
          ( /\ AddPageToBook(bookId, NoAnalysis, readOk, addOk, updOk)
            /\ ~call'.threw
            /\ NumberedInOrder(bookId) )
          => /\ NumberedInOrder(bookId)'
             /\ Len(StoredPages(bookId)') = Len(StoredPages(bookId)) + 1]_vars

\* C9: every stored book's pageCount equals the number of pages stored for it.
C9_PageCountConsistent ==
    /\ \A i \in 1..Len(localBooks) :
          localBooks[i].pageCount = Len(PagesOf(localPages, localBooks[i].id))
    /\ \A k \in DOMAIN remoteBooks :
          remoteBooks[k].pageCount = Cardinality(DOMAIN PagesOf(remotePages, k))

\* The pages p, q of one book, p appended before q, carry p.pageNumber < q.pageNumber.
AscendingNumbers(docs) ==
    \A p, q \in docs : p.id < q.id => p.pageNumber < q.pageNumber

\* C10: within one book no two stored pages carry the same pageNumber, and every
\* appended page has a number greater than that of every page appended before it.
C10_PageNumbersAppendOnly ==
    /\ \A b \in DOMAIN localPages : AscendingNumbers(Range(localPages[b]))
    /\ \A b \in DOMAIN remotePages : AscendingNumbers(RemoteDocs(remotePages[b]))

\* ------------------------------------------------------------------ VocabTrainer
\* The categories and levels the setup view offers, and the four rating buttons.
SetupCategories == {"noun", "verb", "adjective", "other"}
MasteryLevels == {"new", "again", "medium", "good", "mastered"}
RatingLevels == {"again", "medium", "good", "mastered"}

NoMatchAlert == "Keine Vokabeln für diese Auswahl gefunden!"
SessionEndAlert == "Sitzung beendet!"

\* (item.category as any) || 'other'
CategoryOf(item) == IF "category" \in DOMAIN item THEN item.category ELSE "other"

\* item.masteryLevel || 'new'
LevelOf(item) == IF "masteryLevel" \in DOMAIN item THEN item.masteryLevel ELSE "new"

\* item.baseForm && item.baseForm !== item.word
InflectedForm(item) ==
    "baseForm" \in DOMAIN item /\ item.baseForm # <<>> /\ item.baseForm # item.word

\* The filter as it would be if it ignored verbsOnlyBase.
MatchesKeepingInflected(item, categories, status, onlyBase) ==
    CategoryOf(item) \in categories /\ LevelOf(item) \in status

\* The predicate of startSession's vocabList.filter.
Matches(item, categories, status, onlyBase) ==
    LET cat == CategoryOf(item)
        matchesCat == cat \in categories
        matchesStatus == LevelOf(item) \in status
    IN  IF ~matchesCat \/ ~matchesStatus THEN FALSE
        ELSE IF cat = "verb" /\ onlyBase /\ InflectedForm(item) THEN FALSE
        ELSE TRUE

Filtered(list, categories, status, onlyBase) ==
    SelectSeq(list, LAMBDA item : Matches(item, categories, status, onlyBase))

\* [...filtered].sort(() => Math.random() - 0.5): some order of the same items.
Shuffles(list) ==
    { [i \in 1..Len(list) |-> list[p[i]]] :
        p \in { q \in [1..Len(list) -> 1..Len(list)] :
                    \A i, j \in 1..Len(list) : q[i] = q[j] => i = j } }

\* The empty check as it would be if it never held.
NoMatchNever(filtered) == FALSE

\* filtered.length === 0
NoMatch(filtered) == Len(filtered) = 0

\* The card lookup as it would be if it took the head of the queue.
FirstItem(queue, index) == queue[1]

\* sessionQueue[currentCardIndex]
CurrentItem(queue, index) == queue[index + 1]

\* The test for a next card as it would be if it never held.
MoreCardsNever(queue, index) == FALSE

\* currentCardIndex < sessionQueue.length - 1
MoreCards(queue, index) == index < Len(queue) - 1

\* The item updateVocabStatus stores: the level, and the legacy flag set from it.
WithStatus(item, level) ==
    [k \in DOMAIN item \cup {"masteryLevel"} |->
        CASE k = "masteryLevel" -> level
          [] k = "mastered" -> level = "mastered"
          [] OTHER -> item[k]]

\* updateVocabStatus(id, level): the stores it leaves. Signed in, the document is
\* updated, or nothing is when the write is rejected (writeOk = FALSE); otherwise the
\* item of the local list is.
UpdateVocabStatusResult(id, level, writeOk) ==
    IF user
    THEN [localVocab  |-> localVocab,
          remoteVocab |-> IF writeOk /\ id \in DOMAIN remoteVocab
                          THEN Put(remoteVocab, id, WithStatus(remoteVocab[id], level))
                          ELSE remoteVocab]
    ELSE [localVocab  |-> [i \in 1..Len(localVocab) |->
                              IF localVocab[i].id = id THEN WithStatus(localVocab[i], level)
                              ELSE localVocab[i]],
          remoteVocab |-> remoteVocab]

\* The mount effect: loadVocab().
LoadVocab(readOk) ==
    /\ loading
    /\ vocabList' = GetVocab(user, readOk)
    /\ loading' = FALSE
    /\ UNCHANGED <<mode, setupVars, sessionVars, alerted, ratings, sessions>>
    /\ UNCHANGED <<asyncVars, user, now, nextId, vocabVars, call, ncalls, bookVars, cacheVars,
                   viewVars>>

\* The two buttons of the list view: setMode('setup').
OpenSetup ==
    /\ ~loading /\ mode = "list"
    /\ mode' = "setup"
    /\ UNCHANGED <<vocabList, loading, setupVars, sessionVars, alerted, ratings, sessions>>
    /\ UNCHANGED <<asyncVars, user, now, nextId, vocabVars, call, ncalls, bookVars, cacheVars,
                   viewVars>>

\* "Abbrechen" of the setup view: setMode('list').
CancelSetup ==
    /\ ~loading /\ mode = "setup"
    /\ mode' = "list"
    /\ UNCHANGED <<vocabList, loading, setupVars, sessionVars, alerted, ratings, sessions>>
    /\ UNCHANGED <<asyncVars, user, now, nextId, vocabVars, call, ncalls, bookVars, cacheVars,
                   viewVars>>

\* next.has(x) ? next.delete(x) : next.add(x)
Toggled(set, x) == IF x \in set THEN set \ {x} ELSE set \cup {x}

toggleCat(c) ==
    /\ ~loading /\ mode = "setup"
    /\ selectedCategories' = Toggled(selectedCategories, c)
    /\ UNCHANGED <<vocabList, loading, mode, selectedStatus, verbsOnlyBase, sessionVars,
                   alerted, ratings, sessions>>
    /\ UNCHANGED <<asyncVars, user, now, nextId, vocabVars, call, ncalls, bookVars, cacheVars,
                   viewVars>>

toggleStat(s) ==
    /\ ~loading /\ mode = "setup"
    /\ selectedStatus' = Toggled(selectedStatus, s)
    /\ UNCHANGED <<vocabList, loading, mode, selectedCategories, verbsOnlyBase, sessionVars,
                   alerted, ratings, sessions>>
    /\ UNCHANGED <<asyncVars, user, now, nextId, vocabVars, call, ncalls, bookVars, cacheVars,
                   viewVars>>

\* The check box the setup view shows while 'verb' is selected.
ToggleVerbsOnlyBase ==
    /\ ~loading /\ mode = "setup" /\ "verb" \in selectedCategories
    /\ verbsOnlyBase' = ~verbsOnlyBase
    /\ UNCHANGED <<vocabList, loading, mode, selectedCategories, selectedStatus, sessionVars,
                   alerted, ratings, sessions>>
    /\ UNCHANGED <<asyncVars, user, now, nextId, vocabVars, call, ncalls, bookVars, cacheVars,
                   viewVars>>

\* startSession, by "Session Starten" of the setup view; queue is the order the
\* shuffle produced.
StartSession(queue) ==
    LET filtered == Filtered(vocabList, selectedCategories, selectedStatus, verbsOnlyBase)
    IN  /\ ~loading /\ mode = "setup"
        /\ sessions < MaxSessions
        /\ IF NoMatch(filtered)
           THEN /\ queue = filtered
                /\ alerted' = NoMatchAlert
                /\ UNCHANGED <<mode, sessionVars, ratings, sessions>>
           ELSE /\ queue \in Shuffles(filtered)
                /\ sessions' = sessions + 1
                /\ sessionQueue' = queue
                /\ currentCardIndex' = 0
                /\ showAnswer' = FALSE
                /\ mode' = "train"
                /\ ratings' = 0
                /\ UNCHANGED alerted
        /\ UNCHANGED <<vocabList, loading, setupVars>>
        /\ UNCHANGED <<asyncVars, user, now, nextId, vocabVars, call, ncalls, bookVars, cacheVars,
                       viewVars>>

\* The flip button as it would be if it also moved on to the next card.
FlipCardMovingOn ==
    /\ ~loading /\ mode = "train" /\ ~showAnswer
    /\ showAnswer' = TRUE
    /\ currentCardIndex' = IF MoreCards(sessionQueue, currentCardIndex)
                           THEN currentCardIndex + 1 ELSE currentCardIndex
    /\ UNCHANGED <<vocabList, loading, mode, setupVars, sessionQueue, alerted, ratings,
                   sessions>>
    /\ UNCHANGED <<asyncVars, user, now, nextId, vocabVars, call, ncalls, bookVars, cacheVars,
                   viewVars>>

\* "Karte umdrehen": setShowAnswer(true).
FlipCard ==
    /\ ~loading /\ mode = "train" /\ ~showAnswer
    /\ showAnswer' = TRUE
    /\ UNCHANGED <<vocabList, loading, mode, setupVars, sessionQueue, currentCardIndex,
                   alerted, ratings, sessions>>
    /\ UNCHANGED <<asyncVars, user, now, nextId, vocabVars, call, ncalls, bookVars, cacheVars,
                   viewVars>>

\* The X of the train view: setMode('list').
CloseSession ==
    /\ ~loading /\ mode = "train"
    /\ mode' = "list"
    /\ UNCHANGED <<vocabList, loading, setupVars, sessionVars, alerted, ratings, sessions>>
    /\ UNCHANGED <<asyncVars, user, now, nextId, vocabVars, call, ncalls, bookVars, cacheVars,
                   viewVars>>

\* handleRating(level), by one of the four buttons the revealed card shows. writeOk:
\* the write of updateVocabStatus resolves; readOk: the getDocs of the closing
\* loadVocab resolves.
HandleRating(level, writeOk, readOk) ==
    LET currentItem == CurrentItem(sessionQueue, currentCardIndex)
        r == UpdateVocabStatusResult(currentItem.id, level, writeOk)
    IN  /\ ~loading /\ mode = "train" /\ showAnswer
        /\ localVocab' = r.localVocab
        /\ remoteVocab' = r.remoteVocab
        /\ IF MoreCards(sessionQueue, currentCardIndex)
           THEN /\ currentCardIndex' = currentCardIndex + 1
                /\ showAnswer' = FALSE
                /\ UNCHANGED <<mode, vocabList, alerted>>
           ELSE /\ alerted' = SessionEndAlert
                /\ mode' = "list"
                /\ vocabList' = IF ~user THEN r.localVocab
                                ELSE IF readOk THEN OrderByAddedAtDesc(RemoteDocs(r.remoteVocab))
                                ELSE <<>>
                /\ UNCHANGED <<currentCardIndex, showAnswer>>
        /\ ratings' = ratings + 1
        /\ UNCHANGED <<loading, setupVars, sessionQueue, sessions>>
        /\ UNCHANGED <<asyncVars, user, now, nextId, call, ncalls, bookVars, cacheVars, viewVars>>

\* ------------------------------------------------------------------ the trainer's specifications
hablar == <<"h", "a", "b", "l", "a", "r">>
hable == <<"h", "a", "b", "l", "e">>
casa == <<"c", "a", "s", "a">>

\* The candidates the vocabulary is collected from: a verb in its base form, an
\* inflected form of it (hablé), a noun, and a word without category.
TrainerPool ==
    << [word |-> hablar, category |-> "verb", baseForm |-> hablar],
       [word |-> hable, category |-> "verb", baseForm |-> hablar],
       [word |-> casa, category |-> "noun"],
       [word |-> <<"y">>] >>

\* The items of an imported file: the two verbs as above, unrated; a verb without
\* base form, rated again; a noun, rated mastered; an unrated function word; and a
\* word without category, rated good.
FilterPool ==
    << [word |-> hablar, category |-> "verb", baseForm |-> hablar, addedAt |-> 1,
        mastered |-> FALSE],
       [word |-> hable, category |-> "verb", baseForm |-> hablar, addedAt |-> 1,
        mastered |-> FALSE],
       [word |-> <<"i", "r">>, category |-> "verb", addedAt |-> 1, mastered |-> FALSE,
        masteryLevel |-> "again"],
       [word |-> casa, category |-> "noun", addedAt |-> 1, mastered |-> TRUE,
        masteryLevel |-> "mastered"],
       [word |-> <<"d", "e">>, category |-> "function", addedAt |-> 1, mastered |-> FALSE],
       [word |-> <<"y">>, addedAt |-> 1, mastered |-> FALSE, masteryLevel |-> "good"] >>

\* The members of s at the positions in I, in the order of s.
RECURSIVE Pick(_, _)
Pick(s, I) ==
    IF s = <<>> THEN <<>>
    ELSE LET front == Pick(SubSeq(s, 1, Len(s) - 1), I)
         IN  IF Len(s) \in I THEN Append(front, s[Len(s)]) ELSE front

\* Up to MaxCards members of the pool, in its order.
Picks(pool) ==
    { Pick(pool, I) : I \in { J \in SUBSET (1..Len(pool)) : Cardinality(J) <= MaxCards } }

\* The vocabulary is collected by one addVocabBatch.
Collect(items) ==
    /\ ncalls = 0
    /\ AddVocabBatch(items, TRUE, TRUE)

\* One item is flagged by toggleMastered.
Flag(id) ==
    /\ ncalls < MaxCalls
    /\ ToggleMastered(id, TRUE, TRUE)

\* The vocabulary is imported from one file.
Import(items) ==
    /\ ncalls = 0
    /\ ImportVocabFromJson(items, TRUE, TRUE)

\* A session is set up from the vocabulary of an imported file, under every
\* configuration the setup view can hold.
NextFilter ==
    \/ \E items \in Picks(FilterPool) : Import(items)
    \/ \E readOk \in BOOLEAN : (~user => readOk) /\ LoadVocab(readOk)
    \/ OpenSetup
    \/ CancelSetup
    \/ \E c \in SetupCategories : toggleCat(c)
    \/ \E s \in MasteryLevels : toggleStat(s)
    \/ ToggleVerbsOnlyBase
    \/ \E queue \in Shuffles(Filtered(vocabList, selectedCategories, selectedStatus,
                                      verbsOnlyBase)) : StartSession(queue)

SpecFilter == Init /\ [][NextFilter]_vars

\* A session is run over collected vocabulary under the configuration the trainer
\* starts with.
NextTrainer ==
    \/ \E items \in Picks(TrainerPool) : Collect(items)
    \/ \E id \in KnownVocabIds : Flag(id)
    \/ \E readOk \in BOOLEAN : (~user => readOk) /\ LoadVocab(readOk)
    \/ OpenSetup
    \/ CancelSetup
    \/ \E queue \in Shuffles(Filtered(vocabList, selectedCategories, selectedStatus,
                                      verbsOnlyBase)) : StartSession(queue)
    \/ FlipCard
    \/ CloseSession
    \/ \E level \in RatingLevels, writeOk, readOk \in BOOLEAN :
          /\ (~user => writeOk /\ readOk)
          /\ HandleRating(level, writeOk, readOk)

SpecTrainer == Init /\ [][NextTrainer]_vars

\* ------------------------------------------------------------------ C16, C17
\* What the session configuration selects, in the words of the training filter: the
\* item's category (or 'other') is a selected category, its mastery level (or 'new')
\* is a selected level, and it is not, with 'verbs: base forms only' on, a verb whose
\* baseForm is present and differs from its word.
Selected(item) ==
    /\ (IF "category" \in DOMAIN item THEN item.category ELSE "other") \in selectedCategories
    /\ (IF "masteryLevel" \in DOMAIN item THEN item.masteryLevel ELSE "new") \in selectedStatus
    /\ ~ /\ verbsOnlyBase
         /\ "category" \in DOMAIN item /\ item.category = "verb"
         /\ "baseForm" \in DOMAIN item /\ item.baseForm # <<>>
         /\ item.baseForm # item.word

SelectedItems == { item \in Range(vocabList) : Selected(item) }

\* C16: the queue a started session holds contains exactly the items of the
\* trainer's vocabulary that the configuration selects, each once: those whose
\* category and mastery level are selected, minus, with 'verbs: base forms only'
\* on, every verb whose baseForm is present and differs from its word.
C16_TrainingFilter ==
    [][mode = "setup" /\ mode' = "train" =>
          /\ Range(sessionQueue') = SelectedItems
          /\ Len(sessionQueue') = Cardinality(SelectedItems)]_vars

\* Of the verbs hablar/hablar and hablé/hablar, with 'verbs: base forms only' on,
\* a session is running that queued hablar and not hablé.
C16_Witness ==
    /\ mode = "train" /\ verbsOnlyBase
    /\ \E i, j \in 1..Len(vocabList) : vocabList[i].word = hablar /\ vocabList[j].word = hable
    /\ \E i \in 1..Len(sessionQueue) : sessionQueue[i].word = hablar
    /\ \A i \in 1..Len(sessionQueue) : sessionQueue[i].word # hable

\* C17: when no item of the vocabulary matches the configuration, startSession
\* alerts 'no matching items' and creates no session: the mode does not become
\* train, and the session queue and the current card index stay as they were.
C17_EmptyFilter ==
    [][/\ SelectedItems = {}
       /\ \E queue \in Shuffles(Filtered(vocabList, selectedCategories, selectedStatus,
                                         verbsOnlyBase)) : StartSession(queue)
       => /\ alerted' = NoMatchAlert
          /\ mode' # "train"
          /\ UNCHANGED <<sessionQueue, currentCardIndex>>]_vars

\* startSession has alerted over a vocabulary that holds items, none of them selected.
C17_Witness ==
    /\ alerted = NoMatchAlert /\ mode = "setup"
    /\ vocabList # <<>> /\ SelectedItems = {}
    /\ sessions = 0 /\ sessionQueue = <<>>

\* ------------------------------------------------------------------ C18, C19, C20
\* The stored vocabulary of the backend in use, by item id.
ItemsById(u, list, col) ==
    IF u THEN col
    ELSE [id \in { list[i].id : i \in 1..Len(list) } |->
            list[CHOOSE i \in 1..Len(list) : list[i].id = id]]

\* C18: a running session's queue never changes, whatever ratings are given: a
\* rating that is not the last moves to the next card, and the rating that makes
\* the count of ratings equal to the queue length n - the n-th, no earlier one -
\* ends the session: it alerts, returns to the list and reloads the vocabulary.
C18_NoRequeueing ==
    [][/\ mode = "train" /\ mode' = "train" => sessionQueue' = sessionQueue
       /\ mode' = "train" =>
             ratings' = currentCardIndex' /\ ratings' < Len(sessionQueue')
       /\ \A level \in RatingLevels, writeOk, readOk \in BOOLEAN :
             HandleRating(level, writeOk, readOk) =>
                /\ sessionQueue' = sessionQueue
                /\ ratings' = ratings + 1
                /\ ratings' < Len(sessionQueue) => mode' = "train"
                /\ ratings' = Len(sessionQueue) =>
                      /\ mode' = "list" /\ alerted' = SessionEndAlert
                      /\ vocabList' = IF ~user THEN localVocab'
                                      ELSE IF readOk
                                      THEN OrderByAddedAtDesc(RemoteDocs(remoteVocab'))
                                      ELSE <<>>
                /\ ratings' <= Len(sessionQueue)]_vars

\* A session over at least two cards has ended by its last rating.
C18_Witness ==
    /\ mode = "list" /\ alerted = SessionEndAlert
    /\ Len(sessionQueue) >= 2 /\ ratings = Len(sessionQueue)
    /\ currentCardIndex = Len(sessionQueue) - 1

\* C19: rating the displayed card with level L, the write being stored, sets the
\* stored item's masteryLevel to L and its mastered flag to (L = "mastered"), and
\* leaves every other stored item as it was.
C19_MasteryUpdate ==
    [][\A level \in RatingLevels, readOk \in BOOLEAN :
          HandleRating(level, TRUE, readOk) =>
             LET card == sessionQueue[currentCardIndex + 1]
                 before == ItemsById(user, localVocab, remoteVocab)
                 after == ItemsById(user, localVocab', remoteVocab')
             IN  /\ DOMAIN after = DOMAIN before
                 /\ card.id \in DOMAIN after
                 /\ "masteryLevel" \in DOMAIN after[card.id]
                 /\ after[card.id].masteryLevel = level
                 /\ after[card.id].mastered = (level = "mastered")
                 /\ \A id \in DOMAIN before \ {card.id} : after[id] = before[id]]_vars

\* A card other than the first was rated mastered: its item is stored with
\* masteryLevel mastered and mastered = true, next to an item rated otherwise and
\* an item not rated at all.
C19_Witness ==
    LET stored == ItemsById(user, localVocab, remoteVocab)
    IN  /\ mode = "train" /\ ratings = 2
        /\ \E id \in DOMAIN stored :
              /\ id = sessionQueue[2].id
              /\ LevelOf(stored[id]) = "mastered" /\ stored[id].mastered
        /\ LevelOf(stored[sessionQueue[1].id]) = "again"
        /\ \E id \in DOMAIN stored : "masteryLevel" \notin DOMAIN stored[id]

\* C20: every stored vocabulary item has mastered = (masteryLevel = "mastered"),
\* an item without masteryLevel counting as not mastered, after any sequence of
\* addVocabBatch, ratings and toggleMastered.
C20_LegacyFlagInSync ==
    /\ \A i \in 1..Len(localVocab) :
          localVocab[i].mastered = (LevelOf(localVocab[i]) = "mastered")
    /\ \A id \in DOMAIN remoteVocab :
          remoteVocab[id].mastered = (LevelOf(remoteVocab[id]) = "mastered")

\* ------------------------------------------------------------------ C21
\* C21: every item one addVocabBatch call inserts has an identifier no stored item
\* had and no other inserted item has, the addedAt value of the call, shared by all
\* items of the call, masteryLevel = "new" and mastered = FALSE.
C21_InsertedItemFields ==
    [][\A items \in Batches, readOk, writeOk \in BOOLEAN :
          AddVocabBatch(items, readOk, writeOk) =>
             LET inserted == StoredItems' \ StoredItems
             IN  /\ Cardinality(inserted) = StoredCount' - StoredCount
                 /\ \A d \in inserted :
                       /\ \A e \in StoredItems : e.id # d.id
                       /\ \A e \in inserted : e.id = d.id => e = d
                       /\ d.addedAt = now
                       /\ d.mastered = FALSE
                       /\ "masteryLevel" \in DOMAIN d
                       /\ d.masteryLevel = "new"]_vars

\* ------------------------------------------------------------------ C22
\* "se lo dio.": a phrase token with the analyses of its two words as subWords, a
\* verb, and the full stop.
PhraseSentence ==
    [original |-> "se lo dio.",
     words |-> << [word |-> <<"s", "e", " ", "l", "o">>, type |-> "word",
                   subWords |-> << [word |-> <<"s", "e">>, type |-> "word"],
                                   [word |-> <<"l", "o">>, type |-> "word"] >>],
                  [word |-> <<"d", "i", "o">>, type |-> "word", translation |-> "gave",
                   category |-> "verb", baseForm |-> <<"d", "a", "r">>],
                  [word |-> <<".">>, type |-> "punctuation"] >>]

\* "b!": a word without subWords and an exclamation mark.
PlainSentence ==
    [original |-> "b!",
     words |-> << [word |-> <<"b">>, type |-> "word"],
                  [word |-> <<"!">>, type |-> "punctuation"] >>]

\* The analyses of pages made of these sentences.
PhraseAnalyses ==
    { [sentences |-> ss] :
        ss \in SeqsUpTo({PhraseSentence, PlainSentence}, MaxSentences) \ { <<>> } }

NextFlatten ==
    \/ HandleViewChangeAnalyze({})
    \/ \E a \in PhraseAnalyses : FirstScan(<<a>>, {})
    \/ \E readOk, writeOk, pageReadOk, addOk, updOk \in BOOLEAN :
          Forward(readOk, writeOk, pageReadOk, addOk, updOk)
    \/ \E pageReadOk, addOk, updOk \in BOOLEAN :
          HandleSkipToNextSentence(pageReadOk, addOk, updOk)
    \/ HandlePrevPhase

\* A scanned page whose sentences carry their original text and phrase tokens,
\* read forward and backward.
SpecFlatten == Init /\ [][NextFlatten]_vars

\* The words the candidates of a token list are to have, in order: each token of
\* type word, followed by its sub-tokens.
RECURSIVE FlatWords(_)
FlatWords(tokens) ==
    IF tokens = <<>> THEN <<>>
    ELSE LET w == Head(tokens)
             subs == IF "subWords" \in DOMAIN w THEN w.subWords ELSE <<>>
         IN  (IF w.type = "word"
              THEN <<w.word>> \o [i \in 1..Len(subs) |-> subs[i].word]
              ELSE <<>>) \o FlatWords(Tail(tokens))

\* C22: for every sentence of the analysed page, the vocabulary candidates made
\* from its tokens all carry contextSentence = the sentence's original, and they
\* are one per token of type word and one per sub-token of such a token, each
\* sub-token's candidate following its parent's (so punctuation yields none).
C22_Flatten ==
    result # <<>> =>
        \A n \in 1..Len(result[1].sentences) :
            LET sentence == result[1].sentences[n]
                candidates == WordsToSave(sentence)
            IN  /\ \A i \in 1..Len(candidates) :
                      /\ "contextSentence" \in DOMAIN candidates[i]
                      /\ candidates[i].contextSentence = sentence.original
                /\ [i \in 1..Len(candidates) |-> candidates[i].word] = FlatWords(sentence.words)

\* ------------------------------------------------------------------ C23
\* The positions of an import's items that the dedup rule lets through: the
\* normalized word is not stored and did not appear earlier in the import.
NewPositions(items) ==
    { i \in 1..Len(items) :
        /\ \A d \in StoredItems : NormalizedWord(d.word) # NormalizedWord(items[i].word)
        /\ \A j \in 1..(i - 1) :
              NormalizedWord(items[j].word) # NormalizedWord(items[i].word) }

\* C23: importVocabFromJson skips every item whose trimmed lower-cased word is
\* already stored or appeared earlier in the import, returns the number of items
\* it imported (the growth of the stored collection), and stores every imported
\* item that came with an identifier under that identifier.
C23_Import ==
    [][\A items \in ImportBatches, readOk, writeOk \in BOOLEAN :
          ImportVocabFromJson(items, readOk, writeOk) =>
             LET stored == ~user \/ writeOk
                 imported == IF stored THEN NewPositions(items) ELSE {}
             IN  /\ call'.ret = StoredCount' - StoredCount
                 /\ call'.ret = Cardinality(imported)
                 /\ \A i \in imported :
                       \E d \in StoredItems' :
                          /\ d.word = items[i].word
                          /\ "id" \in DOMAIN items[i] => d.id = items[i].id
                          /\ "id" \notin DOMAIN items[i] =>
                                \A e \in StoredItems : e.id # d.id]_vars

\* ------------------------------------------------------------------ C24
\* The vocabulary calls of the gateway, at different times and under either identity.
NextList ==
    \/ \E items \in Batches, readOk, writeOk \in BOOLEAN :
          /\ (~user => readOk /\ writeOk)
          /\ AddVocabBatch(items, readOk, writeOk)
    \/ \E items \in ImportBatches, readOk, writeOk \in BOOLEAN :
          /\ (~user => readOk /\ writeOk)
          /\ ImportVocabFromJson(items, readOk, writeOk)
    \/ \E id \in KnownVocabIds, deleteOk, readOk \in BOOLEAN :
          /\ (~user => deleteOk /\ readOk)
          /\ (deleteOk => readOk)
          /\ RemoveVocab(id, deleteOk, readOk)
    \/ \E readOk \in BOOLEAN : (~user => readOk) /\ ReadVocab(readOk)
    \/ Tick
    \/ AuthStateChanged

SpecList == Init /\ [][NextList]_vars

NonIncreasingAddedAt(list) ==
    \A i, j \in 1..Len(list) : i < j => list[i].addedAt >= list[j].addedAt

\* C24: on both backends, after any sequence of addVocabBatch,
\* importVocabFromJson and removeVocab calls, the list getVocab returns is in
\* non-increasing addedAt order.
C24_ListOrder ==
    \A u, readOk \in BOOLEAN : NonIncreasingAddedAt(GetVocab(u, readOk))

\* ------------------------------------------------------------------ C25
\* The level of an item after legacy normalization: its masteryLevel, or, without
\* one, "mastered" when its mastered flag is set and "new" otherwise.
NormalizedLevel(item) ==
    IF "masteryLevel" \in DOMAIN item THEN item.masteryLevel
    ELSE IF item.mastered THEN "mastered" ELSE "new"

\* C25: an item stored without masteryLevel counts as mastered when its mastered
\* flag is true and as new otherwise, both in the list the trainer has loaded (the
\* level read from a list item is the normalized one) and in the mastery-level
\* test of the training filter (a started session queues the items whose
\* normalized level is selected).
C25_LegacyNormalization ==
    [][/\ \A i \in 1..Len(vocabList') :
             LevelOf(vocabList'[i]) = NormalizedLevel(vocabList'[i])
       /\ mode = "setup" /\ mode' = "train" =>
             Range(sessionQueue') =
                { item \in Range(vocabList) :
                    /\ CategoryOf(item) \in selectedCategories
                    /\ NormalizedLevel(item) \in selectedStatus
                    /\ ~(verbsOnlyBase /\ CategoryOf(item) = "verb" /\ InflectedForm(item)) }]_vars

\* ------------------------------------------------------------------ C26
\* handleAnalyze at any time the upload screen is shown: analyzeImage resolves
\* with an analysis or rejects.
AnyScan(data, synced) == HandleAnalyze(data, synced) /\ UNCHANGED advances

\* What analyzeImage gives: a rejection, or a page of one sentence.
ScanOutcomes ==
    { <<>> } \cup { <<a>> : a \in { b \in Analyses : Len(b.sentences) = 1 } }

NextScan ==
    \/ CreateBookInLibrary
    \/ HandleViewChangeAnalyze({})
    \/ \E bookId \in ListedBookIds : HandleAddPageToBook(bookId, {})
    \/ HandleViewChange
    \/ \E data \in ScanOutcomes : AnyScan(data, {})
    \/ \E readOk, writeOk, pageReadOk, addOk, updOk \in BOOLEAN :
          Forward(readOk, writeOk, pageReadOk, addOk, updOk)
    \/ HandleReset

\* Pages are scanned one after the other, with and without a target book, read to
\* their end or given up, and any scan may fail.
SpecScan == Init /\ [][NextScan]_vars

\* A step of handleAnalyze in which analyzeImage rejects: the upload screen is
\* shown before and after it and an analysis has been attempted.
AnalysisFailed ==
    /\ mounted /\ result = <<>>
    /\ mounted' /\ result' = <<>>
    /\ opens' = opens + 1

\* C26: a failed analysis leaves no partial state: no page is appended to any
\* book, no vocabulary item is added, and neither the last-analysis cache nor the
\* analysis history gains an entry.
C26_FailureLeavesNoState ==
    [][AnalysisFailed => UNCHANGED <<bookVars, vocabVars, cacheVars>>]_vars

\* C26 witness: an analysis has failed on the upload screen of a session that has
\* a history entry, a stored vocabulary item and a book.
C26_Witness ==
    /\ mounted /\ result = <<>> /\ ~image /\ opens = MaxOpens
    /\ Len(history) = 1
    /\ StoredItems # {}
    /\ ListedBookIds # {}

\* ------------------------------------------------------------------ C27
\* saveCurrentAnalysis calls of one behaviour.
MaxSaves == 12

\* saveCurrentAnalysis(data, image) called on its own.
SaveCurrentAnalysis(data) ==
    LET saved == SaveCurrentAnalysisResult(data)
    IN  /\ lastAnalysis' = saved.lastAnalysis
        /\ history' = saved.history
        /\ UNCHANGED <<asyncVars, trainerVars, user, now, nextId, vocabVars, call, ncalls,
                       bookVars, viewVars>>

\* A save in a millisecond in which nothing has been saved yet.
SaveOnce(data) ==
    /\ IF lastAnalysis = <<>> THEN TRUE ELSE lastAnalysis[1].timestamp < now
    /\ SaveCurrentAnalysis(data)

\* The clock moves on after a save.
Elapse ==
    /\ lastAnalysis # <<>> /\ lastAnalysis[1].timestamp = now
    /\ now < MaxSaves
    /\ now' = now + 1
    /\ UNCHANGED <<asyncVars, trainerVars, user, nextId, vocabVars, call, ncalls, bookVars,
                   cacheVars, viewVars>>

\* The analyses that are saved.
SavePool == { [sentences |-> <<s>>] : s \in SentencePool }

NextHistory ==
    \/ \E data \in SavePool : SaveOnce(data)
    \/ Elapse

\* Up to MaxSaves analyses are saved one after the other.
SpecHistory == Init /\ [][NextHistory]_vars

\* C27: the history holds at most 10 entries, the most recently saved ones in
\* newest-first order: every save puts its entry (which is also the last-analysis
\* cache) in front of the entries held before, in their order, and drops the
\* oldest one when there were 10 already.
C27_BoundedHistory ==
    [][lastAnalysis' # lastAnalysis \/ history' # history =>
         /\ lastAnalysis' # <<>>
         /\ lastAnalysis'[1].timestamp = now /\ lastAnalysis'[1].data \in SavePool
         /\ Len(history') <= 10
         /\ Len(history') = (IF Len(history) < 10 THEN Len(history) + 1 ELSE 10)
         /\ history'[1] = lastAnalysis'[1]
         /\ \A i \in 2..Len(history') : history'[i] = history[i - 1]]_vars

\* C27 witness: more than 10 analyses have been saved, the history is full and
\* the entry saved first is no longer in it.
C27_Witness ==
    /\ Len(history) = 10
    /\ history[1].timestamp > 10
    /\ lastAnalysis = <<history[1]>>

\* ------------------------------------------------------------------ C28
\* Calls of one behaviour that may be suspended at an await.
MaxInflight == 3

\* s without its i-th element.
RemoveAt(s, i) == SubSeq(s, 1, i - 1) \o SubSeq(s, i + 1, Len(s))

\* updatePageProgress(bookId, pageId, sentenceIndex) is called and not awaited.
\* Signed in, it is suspended at await updateDoc with its arguments; otherwise its
\* local branch, which has no await, runs to its end within the call. n numbers the
\* calls in the order they are made.
UpdatePageProgressCalled(bookId, pageId, sentenceIndex) ==
    LET c == [op |-> "updatePageProgress", n |-> Len(inflight) + Len(done) + 1,
              bookId |-> bookId, pageId |-> pageId, sentenceIndex |-> sentenceIndex]
        r == UpdatePageProgressResult(bookId, pageId, sentenceIndex, TRUE)
    IN  /\ Len(inflight) + Len(done) < MaxInflight
        /\ IF user
           THEN /\ inflight' = Append(inflight, c)
                /\ UNCHANGED <<done, localPages, remotePages>>
           ELSE /\ done' = Append(done, [c EXCEPT !.op = "updated"])
                /\ localPages' = r.localPages
                /\ remotePages' = r.remotePages
                /\ UNCHANGED inflight
        /\ UNCHANGED <<trainerVars, user, now, nextId, vocabVars, call, ncalls, localBooks,
                       remoteBooks, cacheVars, viewVars>>

\* The updateDoc of the i-th suspended call settles: the write is applied and the
\* promise resolves (updOk), or it rejects, which the call catches; the call returns.
UpdatePageProgressSettled(i, updOk) ==
    LET c == inflight[i]
        r == UpdatePageProgressResult(c.bookId, c.pageId, c.sentenceIndex, updOk)
    IN  /\ c.op = "updatePageProgress"
        /\ localPages' = r.localPages
        /\ remotePages' = r.remotePages
        /\ inflight' = RemoveAt(inflight, i)
        /\ done' = Append(done, [c EXCEPT !.op = IF updOk THEN "updated" ELSE "rejected"])
        /\ UNCHANGED <<trainerVars, user, now, nextId, vocabVars, call, ncalls, localBooks,
                       remoteBooks, cacheVars, viewVars>>

\* The sentence indexes passed.
ProgressIndexes == 1..MaxSentences

NextProgress ==
    \/ CreateBook(TRUE)
    \/ \E bookId \in KnownBookIds : AddPageToBook(bookId, NoAnalysis, TRUE, TRUE, TRUE)
    \/ \E page \in ListedPages, sentenceIndex \in ProgressIndexes :
          UpdatePageProgressCalled(page.bookId, page.id, sentenceIndex)
    \/ \E i \in DOMAIN inflight, updOk \in BOOLEAN : UpdatePageProgressSettled(i, updOk)

\* Books with pages whose progress is saved by calls that are not awaited, on both
\* backends, the remote updates settling in any order.
SpecProgress == Init /\ [][NextProgress]_vars

\* The pages stored for the current identity, as a set of <<book id, page>>.
AllStoredPages ==
    IF user
    THEN UNION { { <<b, remotePages[b][k]>> : k \in DOMAIN remotePages[b] } : b \in DOMAIN remotePages }
    ELSE UNION { { <<b, localPages[b][i]>> : i \in 1..Len(localPages[b]) } : b \in DOMAIN localPages }

\* The calls that returned after their write was applied, for one page.
Updates(bookId, pageId) ==
    SelectSeq(done, LAMBDA c : c.op = "updated" /\ c.bookId = bookId /\ c.pageId = pageId)

\* C28: when progress saves for a page overlap and settle in any order, the stored
\* lastSentenceIndex is the index passed by the call that completed last, and a
\* completing call changes no other field of the page and no other page.
C28_OverlappingProgress ==
    [][/\ \A bp \in AllStoredPages' :
             LET u == Updates(bp[1], bp[2].id)'
             IN  u # <<>> => bp[2].lastSentenceIndex = u[Len(u)].sentenceIndex
       /\ Len(done') > Len(done) =>
             LET c == done'[Len(done')]
             IN  /\ UNCHANGED <<localBooks, remoteBooks>>
                 /\ AllStoredPages' =
                       { IF bp[1] = c.bookId /\ bp[2].id = c.pageId /\ c.op = "updated"
                         THEN <<bp[1], [bp[2] EXCEPT !.lastSentenceIndex = c.sentenceIndex]>>
                         ELSE bp : bp \in AllStoredPages }]_vars

\* C28 witness: two saves for the same page with different indexes were in flight
\* together and returned in the reverse order of their calls, in a book of two pages.
C28_Witness ==
    /\ inflight = <<>> /\ Len(done) = 2
    /\ done[1].n > done[2].n
    /\ done[1].op = "updated" /\ done[2].op = "updated"
    /\ done[1].bookId = done[2].bookId /\ done[1].pageId = done[2].pageId
    /\ done[1].sentenceIndex # done[2].sentenceIndex
    /\ Cardinality(AllStoredPages) = 2
    /\ \E bp \in AllStoredPages :
          bp[2].id = done[2].pageId /\ bp[2].lastSentenceIndex = done[2].sentenceIndex

\* ------------------------------------------------------------------ C29
\* addVocabBatch(items) is called: it takes currentUser and Date.now(), calls
\* getVocab and is suspended at await getVocab() holding the list read (the local
\* read happens within the call; the remote one is taken to be served at once).
AddVocabBatchCalled(items, readOk) ==
    LET c == [op |-> "addVocabBatch", n |-> Len(inflight) + Len(done) + 1, user |-> user,
              addedAt |-> now, items |-> items, current |-> GetVocab(user, readOk)]
    IN  /\ Len(inflight) + Len(done) < MaxCalls
        /\ inflight' = Append(inflight, c)
        /\ UNCHANGED <<done, trainerVars, user, now, nextId, vocabVars, call, ncalls, bookVars,
                       cacheVars, viewVars>>

\* The i-th suspended addVocabBatch runs on from await getVocab() to its return:
\* the loop over its items against the list it read, then batch.commit() (writeOk:
\* it resolves) or localStorage.setItem of the list it read with the new items in
\* front. counted holds the ids of the items its returned count stands for.
AddVocabBatchResumed(i, writeOk) ==
    LET c == inflight[i]
        created == NewItems(c.items, ExistingWords(c.current), nextId, c.addedAt)
        addedCount == Len(created)
        committed == addedCount = 0 \/ writeOk
        ret == IF c.user /\ ~committed THEN 0 ELSE addedCount
    IN  /\ c.op = "addVocabBatch"
        /\ localVocab' = IF ~c.user /\ addedCount > 0 THEN Unshifted(c.current, created)
                         ELSE localVocab
        /\ remoteVocab' = IF c.user /\ committed THEN BatchSet(remoteVocab, created)
                          ELSE remoteVocab
        /\ nextId' = nextId + addedCount
        /\ inflight' = RemoveAt(inflight, i)
        /\ done' = Append(done, [op |-> "added", n |-> c.n, ret |-> ret,
                                 counted |-> IF ret = 0 THEN {}
                                             ELSE { created[k].id : k \in 1..Len(created) }])
        /\ UNCHANGED <<trainerVars, user, now, call, ncalls, bookVars, cacheVars, viewVars>>

NextOverlap ==
    \/ \E items \in Batches : AddVocabBatchCalled(items, TRUE)
    \/ \E i \in DOMAIN inflight, writeOk \in BOOLEAN :
          /\ (~user => writeOk)
          /\ AddVocabBatchResumed(i, writeOk)
    \/ Tick

\* Up to MaxCalls calls of addVocabBatch that may overlap, on both backends, every
\* read of the vocabulary succeeding.
SpecOverlap == Init /\ [][NextOverlap]_vars

\* C29: when addVocabBatch calls overlap, once all have returned the stored
\* collection holds at most one item per trimmed lower-cased word, and every item
\* counted in a returned insert count is stored.
C29_DedupUnderInterleaving ==
    inflight = <<>> =>
        /\ \A d, e \in StoredItems : NormalizedWord(d.word) = NormalizedWord(e.word) => d = e
        /\ \A i \in DOMAIN done :
              done[i].op = "added" => done[i].counted \subseteq { d.id : d \in StoredItems }

\* ------------------------------------------------------------------ C30
\* handleNextPhase is called in the translation phase, by the button or the space
\* key: it is suspended at await addVocabBatch(wordsToSave) with the
\* currentSentenceIndex and savedToBook of its render.
HandleNextPhaseCalled ==
    /\ mounted
    /\ result # <<>> /\ ~finished
    /\ HasSentence(result[1], FlowState)
    /\ phase = "translation"
    /\ Len(inflight) + Len(done) < MaxInflight
    /\ inflight' = Append(inflight, [op |-> "handleNextPhase",
                                      n |-> Len(inflight) + Len(done) + 1,
                                      currentSentenceIndex |-> currentSentenceIndex,
                                      savedToBook |-> savedToBook])
    /\ UNCHANGED <<done, trainerVars, user, now, nextId, vocabVars, call, ncalls, bookVars,
                   cacheVars, viewVars>>

\* The addVocabBatch of the i-th suspended handleNextPhase returns (here it runs
\* as a whole at this moment) and the handler runs to its end: the updater
\* functions work on the state of now, the tests on the values the handler holds.
HandleNextPhaseResumed(i) ==
    LET c == inflight[i]
        currentSentence == result[1].sentences[c.currentSentenceIndex + 1]
        wordsToSave == WordsToSave(currentSentence)
        v == AddVocabBatchResult(wordsToSave, TRUE, TRUE)
        goesOn == c.currentSentenceIndex < Len(result[1].sentences) - 1
        st == IF goesOn
              THEN [FlowState EXCEPT !.sentenceIndex = @ + 1, !.phase = "sentence",
                                     !.wordIndex = 0]
              ELSE [FlowState EXCEPT !.finished = TRUE]
    IN  /\ c.op = "handleNextPhase"
        /\ mounted /\ result # <<>>
        /\ localVocab' = v.localVocab
        /\ remoteVocab' = v.remoteVocab
        /\ newlySavedCount' = newlySavedCount + v.ret
        /\ savedWords' = savedWords \cup
               { ToLowerCase(wordsToSave[k].word) : k \in 1..Len(wordsToSave) }
        /\ MoveTo(st)
        /\ FinishHolding(c.savedToBook, ~goesOn, v.nextId, TRUE, TRUE, TRUE)
        /\ inflight' = RemoveAt(inflight, i)
        /\ done' = Append(done, [c EXCEPT !.op = "advanced"])
        /\ UNCHANGED <<trainerVars, user, now, call, ncalls, propVars, result, image, faults,
                       opens, advances>>

NextAdvance ==
    \/ HandleViewChangeAnalyze({})
    \/ \E a \in Analyses : FirstScan(<<a>>, {})
    \/ Forward(TRUE, TRUE, TRUE, TRUE, TRUE)
    \/ HandleNextPhaseCalled
    \/ \E i \in DOMAIN inflight : HandleNextPhaseResumed(i)

\* A scanned page is read by advances; those from the translation phase may be
\* repeated while an earlier one is suspended.
SpecAdvance == Init /\ [][NextAdvance]_vars

\* C30: when advances from the translation phase overlap, each of them leaves the
\* view at most one sentence past the sentence it was made on, and the sentence
\* index never reaches the number of sentences.
C30_OverlappingAdvances ==
    [][/\ result' # <<>> => currentSentenceIndex' < Len(result'[1].sentences)
       /\ Len(done') > Len(done) =>
             currentSentenceIndex' <= done'[Len(done')].currentSentenceIndex + 1]_vars

\* ------------------------------------------------------------------ C31
NextAppend ==
    \/ CreateBookInLibrary
    \/ \E bookId \in ListedBookIds : HandleAddPageToBook(bookId, {})
    \/ \E data \in ScanOutcomes : ScanIntoBook(data, {})
    \/ Forward(TRUE, TRUE, TRUE, TRUE, TRUE)
    \/ HandleSkipToNextSentence(TRUE, TRUE, TRUE)
    \/ HandleNextPhaseCalled
    \/ \E i \in DOMAIN inflight : HandleNextPhaseResumed(i)

\* A page of one sentence is scanned into a book and read to its end by advance
\* and skip actions, of which those from the translation phase may overlap; no
\* backend operation fails.
SpecAppend == Init /\ [][NextAppend]_vars

\* The pages of the target book that hold the analysis being read.
AppendedPages ==
    { page \in ListedPages : page.bookId = targetBookId[1] /\ page.analysis = result[1] }

\* C31: one analysed page with a target book is appended to the book at most once.
C31_SinglePageAppend ==
    mounted /\ targetBookId # <<>> /\ initialData = <<>> /\ result # <<>> =>
        Cardinality(AppendedPages) <= 1

\* ------------------------------------------------------------------ C32
\* addPageToBook(bookId, image, analysis) is called: it takes currentUser, calls
\* getBookPages and is suspended at await getBookPages(bookId) with the page number
\* it will give (the read is taken to be served at once).
AddPageToBookCalled(bookId, analysis) ==
    LET c == [op |-> "addPageToBook", n |-> Len(inflight) + Len(done) + 1, user |-> user,
              bookId |-> bookId, analysis |-> analysis, pc |-> "currentPages",
              pageNumber |-> Len(GetBookPages(bookId, TRUE)) + 1,
              page |-> <<>>, pages |-> <<>>, books |-> <<>>]
    IN  /\ Len(inflight) + Len(done) < MaxInflight
        /\ inflight' = Append(inflight, c)
        /\ UNCHANGED <<done, trainerVars, user, now, nextId, vocabVars, call, ncalls, bookVars,
                       cacheVars, viewVars>>

\* The i-th suspended addPageToBook runs on from the await it is suspended at (pc)
\* to its next await or to its return, every backend operation succeeding.
\*   currentPages: newPage is built; signed in, addDoc stores it; otherwise the id
\*                 is drawn and the pages are read again;
\*   addDoc:       updateDoc(bookRef, { pageCount: increment(1) }), return;
\*   pages:        push on the list read, setItem, getBooks;
\*   books:        pageCount + 1 on the list read, setItem, return.
AddPageToBookResumed(i) ==
    LET c == inflight[i]
        newPage == [id |-> nextId, bookId |-> c.bookId, pageNumber |-> c.pageNumber,
                    analysis |-> c.analysis, createdAt |-> now, lastSentenceIndex |-> 0]
        returned == [op |-> "pageAdded", n |-> c.n, bookId |-> c.bookId, ret |-> c.page[1].id]
    IN  /\ c.op = "addPageToBook"
        /\ CASE c.pc = "currentPages" /\ c.user ->
                  /\ remotePages' = Put(remotePages, c.bookId,
                                        Put(PagesOf(remotePages, c.bookId), nextId, newPage))
                  /\ nextId' = nextId + 1
                  /\ inflight' = [inflight EXCEPT ![i] =
                                     [c EXCEPT !.pc = "addDoc", !.page = <<newPage>>]]
                  /\ UNCHANGED <<done, localBooks, localPages, remoteBooks>>
             [] c.pc = "currentPages" /\ ~c.user ->
                  /\ nextId' = nextId + 1
                  /\ inflight' = [inflight EXCEPT ![i] =
                                     [c EXCEPT !.pc = "pages", !.page = <<newPage>>,
                                               !.pages = PagesOf(localPages, c.bookId)]]
                  /\ UNCHANGED <<done, bookVars>>
             [] c.pc = "addDoc" ->
                  /\ remoteBooks' = [remoteBooks EXCEPT ![c.bookId].pageCount = @ + 1]
                  /\ inflight' = RemoveAt(inflight, i)
                  /\ done' = Append(done, returned)
                  /\ UNCHANGED <<nextId, localBooks, localPages, remotePages>>
             [] c.pc = "pages" ->
                  /\ localPages' = Put(localPages, c.bookId, Append(c.pages, c.page[1]))
                  /\ inflight' = [inflight EXCEPT ![i] =
                                     [c EXCEPT !.pc = "books", !.books = localBooks]]
                  /\ UNCHANGED <<done, nextId, localBooks, remoteBooks, remotePages>>
             [] c.pc = "books" ->
                  /\ localBooks' = IncrementLocalPageCount(c.books, c.bookId)
                  /\ inflight' = RemoveAt(inflight, i)
                  /\ done' = Append(done, returned)
                  /\ UNCHANGED <<nextId, localPages, remoteBooks, remotePages>>
        /\ UNCHANGED <<trainerVars, user, now, vocabVars, call, ncalls, cacheVars, viewVars>>

NextAppends ==
    \/ CreateBookInLibrary
    \/ \E bookId \in ListedBookIds : AddPageToBookCalled(bookId, NoAnalysis)
    \/ \E i \in DOMAIN inflight : AddPageToBookResumed(i)
    \/ Tick

\* Pages are appended to a book by calls that may overlap, on both backends, no
\* backend operation failing.
SpecAppends == Init /\ [][NextAppends]_vars

\* The appends to a book that have returned.
Appends(bookId) == { i \in DOMAIN done : done[i].op = "pageAdded" /\ done[i].bookId = bookId }

\* C32: when addPageToBook calls for a book overlap, once all have returned every
\* page is stored, the pages carry different pageNumbers and the book's pageCount
\* has grown by the number of calls.
C32_ConcurrentAppends ==
    inflight = <<>> =>
        \A b \in ListedBookIds :
            LET pages == Range(StoredPages(b))
            IN  /\ { done[i].ret : i \in Appends(b) } \subseteq { p.id : p \in pages }
                /\ \A p, q \in pages : p.pageNumber = q.pageNumber => p = q
                /\ ListedPageCount(b) = Cardinality(Appends(b))

\* ------------------------------------------------------------------ C33
\* handleRating(level) is called by a button of the revealed card: it takes
\* sessionQueue[currentCardIndex] of its render and is suspended at await
\* updateVocabStatus(currentItem.id, level).
HandleRatingCalled(level) ==
    /\ ~loading /\ mode = "train" /\ showAnswer
    /\ currentCardIndex < Len(sessionQueue)
    /\ Len(inflight) + Len(done) < MaxInflight
    /\ inflight' = Append(inflight, [op |-> "handleRating",
                                      n |-> Len(inflight) + Len(done) + 1,
                                      level |-> level,
                                      id |-> CurrentItem(sessionQueue, currentCardIndex).id,
                                      currentCardIndex |-> currentCardIndex])
    /\ UNCHANGED <<done, trainerVars, user, now, nextId, vocabVars, call, ncalls, bookVars,
                   cacheVars, viewVars>>

\* The updateVocabStatus of the i-th suspended handleRating returns (here it runs
\* as a whole at this moment) and the handler runs to its end: the test is made on
\* the currentCardIndex the handler holds, the updater works on the state of now.
HandleRatingResumed(i, writeOk, readOk) ==
    LET c == inflight[i]
        r == UpdateVocabStatusResult(c.id, c.level, writeOk)
    IN  /\ c.op = "handleRating"
        /\ localVocab' = r.localVocab
        /\ remoteVocab' = r.remoteVocab
        /\ IF MoreCards(sessionQueue, c.currentCardIndex)
           THEN /\ currentCardIndex' = currentCardIndex + 1
                /\ showAnswer' = FALSE
                /\ UNCHANGED <<mode, vocabList, alerted>>
           ELSE /\ alerted' = SessionEndAlert
                /\ mode' = "list"
                /\ vocabList' = IF ~user THEN r.localVocab
                                ELSE IF readOk THEN OrderByAddedAtDesc(RemoteDocs(r.remoteVocab))
                                ELSE <<>>
                /\ UNCHANGED <<currentCardIndex, showAnswer>>
        /\ ratings' = ratings + 1
        /\ inflight' = RemoveAt(inflight, i)
        /\ done' = Append(done, [op |-> "rated", n |-> c.n, id |-> c.id])
        /\ UNCHANGED <<loading, setupVars, sessionQueue, sessions>>
        /\ UNCHANGED <<user, now, nextId, call, ncalls, bookVars, cacheVars, viewVars>>

NextRatings ==
    \/ \E items \in Picks(TrainerPool) : Collect(items)
    \/ LoadVocab(TRUE)
    \/ OpenSetup
    \/ \E queue \in Shuffles(Filtered(vocabList, selectedCategories, selectedStatus,
                                      verbsOnlyBase)) : StartSession(queue)
    \/ FlipCard
    \/ \E level \in RatingLevels : HandleRatingCalled(level)
    \/ \E i \in DOMAIN inflight : HandleRatingResumed(i, TRUE, TRUE)

\* A session over collected vocabulary in which a rating button may be pressed
\* again while an earlier rating is suspended; no backend operation fails.
SpecRatings == Init /\ [][NextRatings]_vars

\* C33: when ratings overlap, currentCardIndex stays below the queue length while
\* the session is in train mode, and when the session has ended every queued card
\* has been rated exactly once.
C33_OverlappingRatings ==
    /\ mode = "train" => currentCardIndex < Len(sessionQueue)
    /\ mode = "list" /\ alerted = SessionEndAlert /\ inflight = <<>> =>
          \A k \in 1..Len(sessionQueue) :
              Cardinality({ i \in DOMAIN done :
                              done[i].op = "rated" /\ done[i].id = sessionQueue[k].id }) = 1

\* ------------------------------------------------------------------ C34
\* C34: when the read of the existing vocabulary inside a signed-in addVocabBatch
\* fails and its write succeeds, no item is inserted whose trimmed lower-cased
\* word is that of an item already stored.
C34_ReadFailureKeepsDedup ==
    [][\A items \in Batches :
          user /\ AddVocabBatch(items, FALSE, TRUE) =>
              \A d \in StoredItems' \ StoredItems :
                  NormalizedWord(d.word) \notin { NormalizedWord(e.word) : e \in StoredItems }]_vars

\* ------------------------------------------------------------------ C35
\* The items of the imported files: one carries the id the first stored item has
\* (an exported item whose word was edited in the file), one carries no id.
IdPool ==
    { [word |-> <<"a">>, id |-> 1, addedAt |-> 1, mastered |-> FALSE],
      [word |-> <<"b", " ">>, addedAt |-> 1, mastered |-> FALSE] }

NextIds ==
    \/ \E items \in Batches : AddVocabBatch(items, TRUE, TRUE)
    \/ \E items \in SeqsUpTo(IdPool, MaxBatch) : ImportVocabFromJson(items, TRUE, TRUE)
    \/ Tick

\* addVocabBatch and importVocabFromJson on both backends, no backend operation
\* failing.
SpecIds == Init /\ [][NextIds]_vars

\* C35: no two stored vocabulary items share an id, and an import leaves every
\* item that was stored before it stored as it was.
C35_IdentifierUniqueness ==
    [][/\ \A i, j \in 1..Len(localVocab') :
             localVocab'[i].id = localVocab'[j].id => i = j
       /\ \A k \in DOMAIN remoteVocab' : remoteVocab'[k].id = k
       /\ call'.op = "importVocabFromJson" /\ ncalls' # ncalls =>
             StoredItems \subseteq StoredItems']_vars

\* ------------------------------------------------------------------ C36
\* One call sequence run against both stores: each step makes the same call once as
\* a guest (the list under VOCAB_KEY) and once as a signed-in user (the vocabulary
\* collection), with the same clock and the same crypto.randomUUID() values, no
\* backend operation failing.
OnBoth(op, local, remote) ==
    /\ ncalls < MaxBookCalls
    /\ localVocab' = local.localVocab
    /\ remoteVocab' = remote.remoteVocab
    /\ call' = [op |-> op, threw |-> FALSE, local |-> local.ret, remote |-> remote.ret]
    /\ ncalls' = ncalls + 1

AddVocabBatchOnBoth(items) ==
    LET local == AddVocabBatchOn(FALSE, items, TRUE, TRUE)
        remote == AddVocabBatchOn(TRUE, items, TRUE, TRUE)
    IN  /\ OnBoth("addVocabBatch", local, remote)
        /\ nextId' = IF local.nextId > remote.nextId THEN local.nextId ELSE remote.nextId
        /\ UNCHANGED <<asyncVars, trainerVars, user, now, bookVars, cacheVars, viewVars>>

ImportVocabFromJsonOnBoth(items) ==
    LET local == ImportVocabFromJsonOn(FALSE, items, TRUE, TRUE)
        remote == ImportVocabFromJsonOn(TRUE, items, TRUE, TRUE)
    IN  /\ OnBoth("importVocabFromJson", local, remote)
        /\ nextId' = IF local.nextId > remote.nextId THEN local.nextId ELSE remote.nextId
        /\ UNCHANGED <<asyncVars, trainerVars, user, now, bookVars, cacheVars, viewVars>>

\* removeVocab returns nothing: its count is 0 on both sides.
RemoveVocabOnBoth(id) ==
    LET local == RemoveVocabOn(FALSE, id, TRUE, TRUE)
        remote == RemoveVocabOn(TRUE, id, TRUE, TRUE)
    IN  /\ OnBoth("removeVocab", [localVocab |-> local.localVocab, ret |-> 0],
                  [remoteVocab |-> remote.remoteVocab, ret |-> 0])
        /\ UNCHANGED <<asyncVars, trainerVars, user, now, nextId, bookVars, cacheVars,
                       viewVars>>

NextBackends ==
    \/ \E items \in Batches : AddVocabBatchOnBoth(items)
    \/ \E items \in SeqsUpTo(IdPool \cup ImportPool, MaxBatch) : ImportVocabFromJsonOnBoth(items)
    \/ \E id \in KnownVocabIds : RemoveVocabOnBoth(id)
    \/ Tick

\* The same calls against the local store and the remote store, side by side.
SpecBackends == Init /\ [][NextBackends]_vars

\* C36: after the same calls the two stores hold the same set of vocabulary items,
\* and every call returned the same count on both.
C36_BackendEquivalence ==
    /\ Range(localVocab) = RemoteDocs(remoteVocab)
    /\ "local" \in DOMAIN call => call.local = call.remote

\* ------------------------------------------------------------------ C37
\* C37: every word the reading view holds in savedWords is stored, under the same
\* normalized form, on the backend the current identity selects.
C37_SavedMarkerTruthful ==
    \A w \in savedWords :
        \E item \in StoredItems : NormalizedWord(item.word) = NormalizedWord(w)

\* ------------------------------------------------------------------ C38
\* C38: a session started with all four categories and all five mastery levels
\* selected and the base-form filter off holds every item of the loaded vocabulary
\* in its queue.
C38_EveryItemTrainable ==
    /\ mode = "train"
    /\ selectedCategories = SetupCategories
    /\ selectedStatus = MasteryLevels
    /\ ~verbsOnlyBase
    => Range(vocabList) \subseteq Range(sessionQueue)

\* ------------------------------------------------------------------ C39
\* A handleRating has run to its end (startSession, which sets the count of the
\* session's ratings back to 0, is no rating).
RatingGiven == ratings' = ratings + 1

\* A rating button is pressed: handleRating runs as a whole, or is called and
\* suspended at its await.
RatingPressed ==
    \/ RatingGiven /\ inflight' = inflight
    \/ /\ Len(inflight') > Len(inflight)
       /\ inflight'[Len(inflight')].op = "handleRating"

\* C39: a rating button is pressed only in train mode on a revealed card; a session
\* starts on its first card, hidden; revealing a card changes the reveal flag and
\* nothing of the stores, the queue, the index or the mode; whenever the index
\* moves the card it moves to is hidden; and a rating that leaves the session
\* running moves the index on by one and hides the card.
C39_CardProtocol ==
    [][/\ RatingPressed => mode = "train" /\ showAnswer
       /\ sessions' # sessions => currentCardIndex' = 0 /\ ~showAnswer'
       /\ ~showAnswer /\ showAnswer' =>
             UNCHANGED <<vocabVars, vocabList, sessionQueue, currentCardIndex, mode, ratings>>
       /\ currentCardIndex' # currentCardIndex => ~showAnswer'
       /\ RatingGiven /\ mode' = "train" =>
             currentCardIndex' = currentCardIndex + 1 /\ ~showAnswer']_vars

\* The first card was revealed and rated, and the second card, shown hidden after
\* the rating, has been revealed in its turn.
C39_Witness ==
    mode = "train" /\ ratings = 1 /\ currentCardIndex = 1 /\ showAnswer

====
